---- MODULE Spec2Model ----
(***************************************************************************)
(* Wildfire detection front end: the chunked event-stream decoder          *)
(* (services/api.js), the audio alarm engine (utils/audioAlert.js), the    *)
(* alert orchestration and emergency stop of App.jsx, and the capture loop *)
(* of components/WebcamDetection.jsx.                                      *)
(*                                                                         *)
(* Nine specifications share the variables; each one moves its own         *)
(* component and leaves the others in their initial state:                 *)
(*   SpecDecoder  the read loop of detectFireSmokeStreaming, character by  *)
(*                character, under every chunking of the response body;    *)
(*   SpecAudio    AudioAlertSystem with the browser's media events;        *)
(*   SpecApp      handleDetection on its streaming path, the ledgers and   *)
(*                the emergency stop;                                      *)
(*   SpecBatch    handleDetection on its batch path, the notification      *)
(*                permission and the emergency stop;                       *)
(*   SpecCamera   the capture timer, its frame requests, onFireDetected    *)
(*                and the emergency stop;                                  *)
(*   SpecLedger   the alert and history ledgers and their persistence;     *)
(*   SpecSatellite the ledgers with the satellite handlers;                *)
(*   SpecNetCam   the network camera: proxy, fallback and snapshot polls;  *)
(*   SpecLifecycle the camera sources across mode switches and unmount.    *)
(***************************************************************************)
EXTENDS Integers, Sequences, FiniteSets, TLC

VARIABLES
    \* ---- decoder (services/api.js, detectFireSmokeStreaming) ----
    stream,        \* the response body the server emits, a sequence of characters
    sent,          \* how many characters reader.read() has handed over so far
    buffer,        \* `buffer`: the text kept between reads
    calls,         \* the callback invocations made so far, in order
    dpc,           \* position of the read loop: "idle", "reading", "done"
    cutsSeen,      \* history: the kinds of place where a chunk boundary fell
    \* ---- alarm engine (utils/audioAlert.js, AudioAlertSystem) ----
    isPlaying,     \* this.isPlaying
    audioContext,  \* this.audioContext has been created (init)
    audioElement,  \* this.audioElement has been created
    paused,        \* audioElement.paused
    clipState,     \* the clip is audibly "playing", or "idle"
    promises,      \* unsettled audioElement.play() promises, by playFireAlarm
                   \* call: "pending", or "aborted" (rejection queued by pause)
    listeners,     \* number of onEnded/onError listener pairs on the element
    oscillators,   \* this.oscillators, as the set of its nodes
    gainNodes,     \* this.gainNodes, by the oscillator each one feeds
    sounding,      \* oscillator nodes started and not yet ended
    fading,        \* sounding nodes that stopAlarm has told to stop
    nextCall,      \* number of playFireAlarm calls that got past the guard
    rejections,    \* number of playFireAlarm calls whose promise was rejected
    \* ---- orchestration (App.jsx) ----
    isEmergencyStop,   \* state isEmergencyStop
    isLoading,         \* state isLoading
    isMonitoring,      \* state isMonitoring (handed to WebcamDetection)
    instantAlert,      \* state instantAlert: <<>> for null, else <<alert>>
    alerts,            \* state alerts, the ledger, most recent first
    detectionHistory,  \* state detectionHistory, most recent first
    runs,              \* the handleDetection calls made, each with its closure
    alarmCalls,        \* number of audioAlert.playFireAlarm calls made by App
    errorsShown,       \* number of window.alert error messages shown
    eventsSent,        \* number of stream events the server has sent, all runs
    nextId,            \* number of alert ids drawn (Date.now() plus a random suffix)
    permission,        \* Notification.permission: "granted", "default", "denied"
    notifications,     \* number of OS notifications issued (new Notification)
    permissionAsked,   \* unanswered Notification.requestPermission() calls
    storage,           \* localStorage: the texts under 'wildfire-alerts' and
                       \* 'wildfire-detection-history'
    oldUpTo,           \* the clock: alerts with an id up to this one were
                       \* created more than thirty seconds ago
    \* ---- capture loop (components/WebcamDetection.jsx) ----
    hasPermission,     \* state hasPermission
    streamRef,         \* streamRef.current holds a live device stream
    intervalRef,       \* intervalRef.current: a timer id, 0 for null
    timers,            \* the interval timers that are set, each with the
                       \* isEmergencyStop its callback closed over
    requests,          \* POST /detect/frame requests in flight, oldest first
    stats,             \* state stats: framesProcessed, fireDetections
    framesSent,        \* number of frames sent to the detection endpoint
    nextTimer,         \* number of setInterval calls made
    acquiring,         \* getUserMedia calls of startWebcam not yet settled
    cameraMode,        \* state cameraMode: "local" or "network"
    error,             \* state error: which message is shown, "none" for null
    imgHandlers,       \* imgRef.current.onload / onerror: the handlers set
                       \* ("proxy", "direct", "none" for null) and the
                       \* hasPermission their startNetworkCamera closed over
    imgSrc,            \* imgRef.current.src: the URL last assigned
    imgState,          \* the image: "empty", "loading", "loaded", "broken"
    refreshIntervalRef, \* refreshIntervalRef.current: a timer id, 0 for null
    pollTimers,        \* the snapshot timers that are set
    polls,             \* number of times a snapshot timer fired
    snapshots,         \* number of snapshot requests issued (src assigned)
    mounted,           \* WebcamDetection is mounted (the Live Camera tab is shown)
    liveStreams,       \* device streams getUserMedia gave whose tracks have
                       \* not been stopped
    \* ---- history ----
    lastOp         \* the operation that made the last step

decoderVars == <<stream, sent, buffer, calls, dpc, cutsSeen>>

audioVars == <<isPlaying, audioContext, audioElement, paused, clipState, promises,
               listeners, oscillators, gainNodes, sounding, fading, nextCall,
               rejections>>

notifVars == <<permission, notifications, permissionAsked>>

appVars == <<isEmergencyStop, isLoading, isMonitoring, instantAlert, alerts,
             detectionHistory, runs, alarmCalls, errorsShown, eventsSent, nextId,
             notifVars, storage, oldUpTo>>

\* the network source of WebcamDetection
netVars == <<cameraMode, error, imgHandlers, imgSrc, imgState, refreshIntervalRef,
             pollTimers, polls, snapshots>>

\* the capture loop and the local source
loopVars == <<hasPermission, streamRef, intervalRef, timers, requests, stats,
              framesSent, nextTimer, acquiring>>

\* the life of the component and of the device streams it was given
sourceVars == <<mounted, liveStreams>>

cameraVars == <<loopVars, netVars, sourceVars>>

vars == <<decoderVars, audioVars, appVars, cameraVars, lastOp>>

-----------------------------------------------------------------------------
(* Bounds *)

\* events per response body
MaxEvents == 2

\* playFireAlarm calls that get past the isPlaying guard
MaxCalls == 3

\* handleDetection calls
MaxRuns == 2

\* frames the capture loop sends
MaxFrames == 2

\* setInterval calls of startMonitoring
MaxTimers == 2

\* siren groups playGeneratedSiren creates
MaxSirens == 2

\* getUserMedia calls pending at a time
MaxPending == 1

\* device streams live at a time
MaxStreams == 2

\* times a snapshot timer fires
MaxPolls == 3

\* snapshot requests made before the last startNetworkCamera
MaxSnapshots == 3

\* alerts made before the last detection or satellite load starts
MaxAlerts == 2

-----------------------------------------------------------------------------
(* Text: strings are sequences of one-character strings *)

NL == "\n"

\* the event delimiter '\n\n' of buffer.split('\n\n')
Delimiter == <<NL, NL>>

\* the marker 'data: ' of event.startsWith('data: ')
DataPrefix == <<"d", "a", "t", "a", ":", " ">>

Digit(n) == CASE n = 0 -> "0" [] n = 1 -> "1" [] n = 2 -> "2" [] n = 3 -> "3"
              [] n = 4 -> "4" [] n = 5 -> "5" [] n = 6 -> "6" [] n = 7 -> "7"
              [] n = 8 -> "8" [] OTHER -> "9"

\* The payloads the server sends: a frame {frame, total_frames, detections,
\* has_fire} (detections kept as their number), {done:true}, {error:msg}.
FramePayloads == [type : {"frame"}, frame : 0..(MaxEvents + 1), has_fire : BOOLEAN,
                  ndet : 0..2]

DonePayload == [type |-> "done"]

ErrorPayload == [type |-> "error", message |-> "boom"]

Payloads == FramePayloads \cup {DonePayload, ErrorPayload}

\* JSON text of a payload, one character per field
Stringify(p) ==
    CASE p.type = "frame" ->
            <<"{", "f", Digit(p.frame), (IF p.has_fire THEN "+" ELSE "-"),
              Digit(p.ndet), "}">>
      [] p.type = "done"  -> <<"{", "D", "}">>
      [] OTHER            -> <<"{", "E", "}">>

SyntaxError == [type |-> "SyntaxError"]

\* JSON.parse: the payload whose text this is, or a SyntaxError
JSONParse(text) ==
    IF \E p \in Payloads : Stringify(p) = text
    THEN CHOOSE p \in Payloads : Stringify(p) = text
    ELSE SyntaxError

StartsWith(s, prefix) ==
    /\ Len(s) >= Len(prefix)
    /\ SubSeq(s, 1, Len(prefix)) = prefix

\* s.split('\n\n'): the pieces between the leftmost, non-overlapping
\* delimiters; always at least one piece.  `cur` is the piece being read.
RECURSIVE Split(_, _)
Split(s, cur) ==
    IF s = <<>> THEN <<cur>>
    ELSE IF StartsWith(s, Delimiter)
         THEN <<cur>> \o Split(SubSeq(s, 3, Len(s)), <<>>)
         ELSE Split(Tail(s), Append(cur, Head(s)))

Front(s) == SubSeq(s, 1, Len(s) - 1)

Last(s) == s[Len(s)]

-----------------------------------------------------------------------------
(* Decoder: the body of the read loop *)

\* (faulty variant) a payload that does not parse is reported through the
\* error callback
DispatchEvent_BadIsError(event) ==
    IF StartsWith(event, DataPrefix)
    THEN LET data == SubSeq(event, Len(DataPrefix) + 1, Len(event))
             frameData == JSONParse(data)
         IN  CASE frameData.type = "SyntaxError" ->
                      <<[cb |-> "error", message |-> "SyntaxError"]>>
               [] frameData.type = "done"  -> <<[cb |-> "complete"]>>
               [] frameData.type = "error" ->
                      <<[cb |-> "error", message |-> frameData.message]>>
               [] OTHER -> <<[cb |-> "frame", data |-> frameData]>>
    ELSE <<>>

\* The callback one complete event leads to: <<>> when it has no 'data: '
\* marker or its JSON does not parse, else one invocation.
DispatchEvent(event) ==
    IF StartsWith(event, DataPrefix)
    THEN LET data == SubSeq(event, Len(DataPrefix) + 1, Len(event))
             frameData == JSONParse(data)
         IN  CASE frameData.type = "SyntaxError" -> <<>>
               [] frameData.type = "done"  -> <<[cb |-> "complete"]>>
               [] frameData.type = "error" ->
                      <<[cb |-> "error", message |-> frameData.message]>>
               [] OTHER -> <<[cb |-> "frame", data |-> frameData]>>
    ELSE <<>>

\* (faulty variant) the events of one chunk are dispatched last to first
RECURSIVE DispatchAll_Reversed(_)
DispatchAll_Reversed(events) ==
    IF events = <<>> THEN <<>>
    ELSE DispatchAll_Reversed(Tail(events)) \o DispatchEvent(Head(events))

RECURSIVE DispatchAll(_)
DispatchAll(events) ==
    IF events = <<>> THEN <<>>
    ELSE DispatchEvent(Head(events)) \o DispatchAll(Tail(events))

\* (faulty variant) the trailing partial event is thrown away: buffer = ''
KeepTail_Dropped(events) == <<>>

\* the trailing piece of the split, kept for the next read
KeepTail(events) == Last(events)

\* One pass of the loop body on a chunk: the new buffer and the callbacks made.
ProcessChunk(buf, chunk) ==
    LET events == Split(buf \o chunk, <<>>)
    IN  [buffer |-> KeepTail(events), calls |-> DispatchAll(Front(events))]

-----------------------------------------------------------------------------
(* Response bodies *)

EventKinds == {"fire", "nofire", "done", "error", "bad", "comment"}

\* the text of the i-th event of a body
EventText(kind, i) ==
    CASE kind = "fire" ->
            DataPrefix \o Stringify([type |-> "frame", frame |-> i,
                                     has_fire |-> TRUE, ndet |-> 1]) \o Delimiter
      [] kind = "fire2" ->
            DataPrefix \o Stringify([type |-> "frame", frame |-> i,
                                     has_fire |-> TRUE, ndet |-> 2]) \o Delimiter
      [] kind = "fire0" ->
            DataPrefix \o Stringify([type |-> "frame", frame |-> i,
                                     has_fire |-> TRUE, ndet |-> 0]) \o Delimiter
      [] kind = "nofire" ->
            DataPrefix \o Stringify([type |-> "frame", frame |-> i,
                                     has_fire |-> FALSE, ndet |-> 0]) \o Delimiter
      [] kind = "done"  -> DataPrefix \o Stringify(DonePayload) \o Delimiter
      [] kind = "error" -> DataPrefix \o Stringify(ErrorPayload) \o Delimiter
      [] kind = "bad"   -> DataPrefix \o <<"{", "f">> \o Delimiter
      [] OTHER          -> <<":", "k">> \o Delimiter

RECURSIVE BodyText(_, _)
BodyText(kinds, i) ==
    IF i > Len(kinds) THEN <<>>
    ELSE EventText(kinds[i], i) \o BodyText(kinds, i + 1)

KindSeqs == UNION {[1..n -> EventKinds] : n \in 0..MaxEvents}

\* a body is a sequence of events; the last one may lack its delimiter
\* (the connection closed early)
Bodies ==
    {BodyText(ks, 1) : ks \in KindSeqs}
      \cup {Front(Front(BodyText(ks, 1))) : ks \in KindSeqs \ {<<>>}}

JsonInner == {"{", "f", "D", "E", "+", "-"} \cup {Digit(n) : n \in 0..9}

\* where a chunk boundary after `n` characters of body `s` falls
CutKinds(s, n) ==
    IF n <= 0 \/ n >= Len(s) THEN {}
    ELSE (IF s[n] = NL /\ s[n + 1] = NL THEN {"delimiter"} ELSE {})
           \cup (IF s[n] \in JsonInner /\ s[n + 1] # NL THEN {"json"} ELSE {})

-----------------------------------------------------------------------------
(* Decoder actions *)

DecoderIdle ==
    /\ stream = <<>>
    /\ sent = 0
    /\ buffer = <<>>
    /\ calls = <<>>
    /\ dpc = "idle"
    /\ cutsSeen = {}

\* response.body.getReader(); buffer = ''
DecoderStart ==
    /\ stream \in Bodies
    /\ sent = 0
    /\ buffer = <<>>
    /\ calls = <<>>
    /\ dpc = "reading"
    /\ cutsSeen = {}

\* reader.read() resolves with a chunk of n characters
ReadChunk(n) ==
    /\ dpc = "reading"
    /\ sent + n <= Len(stream)
    /\ LET r == ProcessChunk(buffer, SubSeq(stream, sent + 1, sent + n))
       IN  /\ buffer' = r.buffer
           /\ calls' = calls \o r.calls
    /\ sent' = sent + n
    /\ cutsSeen' = cutsSeen \cup CutKinds(stream, sent + n)
    /\ UNCHANGED <<stream, dpc>>

\* (faulty variant) the end of the body ends the loop without a callback
ReadDone_Silent ==
    /\ dpc = "reading"
    /\ sent = Len(stream)
    /\ dpc' = "done"
    /\ UNCHANGED <<stream, sent, buffer, calls, cutsSeen>>

\* reader.read() resolves with done: onComplete(), break
ReadDone ==
    /\ dpc = "reading"
    /\ sent = Len(stream)
    /\ calls' = Append(calls, [cb |-> "complete"])
    /\ dpc' = "done"
    /\ UNCHANGED <<stream, sent, buffer, cutsSeen>>

NextDecoder ==
    \/ \E n \in 1..Len(stream) :
          ReadChunk(n) /\ lastOp' = "read" /\ UNCHANGED <<audioVars, appVars, cameraVars>>
    \/ ReadDone /\ lastOp' = "readDone" /\ UNCHANGED <<audioVars, appVars, cameraVars>>


-----------------------------------------------------------------------------
(* Alarm engine: AudioAlertSystem *)

\* the voices playGeneratedSiren creates: the three of `frequencies`, then bassOsc
MainVoices == {"800", "1000", "1200"}

BassVoice == "bass"

Voices(g) == {<<g, v>> : v \in MainVoices \cup {BassVoice}}

AudioInit ==
    /\ isPlaying = FALSE
    /\ audioContext = FALSE
    /\ audioElement = FALSE
    /\ paused = TRUE
    /\ clipState = "idle"
    /\ promises = <<>>
    /\ listeners = 0
    /\ oscillators = {}
    /\ gainNodes = {}
    /\ sounding = {}
    /\ fading = {}
    /\ nextCall = 0
    /\ rejections = 0

Pending == {c \in DOMAIN promises : promises[c] = "pending"}

Aborted == {c \in DOMAIN promises : promises[c] = "aborted"}

Without(f, c) == [x \in (DOMAIN f) \ {c} |-> f[x]]

\* playMP3Alarm up to `await this.audioElement.play()`: the element is made
\* or reused, rewound, isPlaying set, and play() leaves its promise pending.
PlayMP3Alarm_Enter ==
    /\ audioElement' = TRUE
    /\ isPlaying' = TRUE
    /\ paused' = FALSE
    /\ nextCall' = nextCall + 1
    /\ promises' = [c \in (DOMAIN promises) \cup {nextCall + 1} |->
                      IF c = nextCall + 1 THEN "pending" ELSE promises[c]]
    /\ UNCHANGED <<audioContext, clipState, listeners, oscillators, gainNodes,
                   sounding, fading, rejections>>

\* playFireAlarm(duration) up to its first await: nothing while isPlaying
PlayFireAlarm ==
    IF isPlaying
    THEN UNCHANGED audioVars
    ELSE /\ nextCall < MaxCalls
         /\ PlayMP3Alarm_Enter

\* playGeneratedSiren(duration) for call g: init(), isPlaying = true, the
\* three voices and the bass voice created, started and pushed.
PlayGeneratedSiren(g) ==
    /\ audioContext' = TRUE
    /\ isPlaying' = TRUE
    /\ oscillators' = oscillators \cup Voices(g)
    /\ gainNodes' = gainNodes \cup Voices(g)
    /\ sounding' = sounding \cup Voices(g)

\* play() of call c resolves: the clip sounds; the call adds its listeners
\* and returns true, so playFireAlarm ends.
ClipStarts(c) ==
    /\ c \in Pending
    /\ clipState' = "playing"
    /\ listeners' = listeners + 1
    /\ promises' = Without(promises, c)
    /\ UNCHANGED <<isPlaying, audioContext, audioElement, paused, oscillators,
                   gainNodes, sounding, fading, nextCall, rejections>>

\* the siren groups created so far (the bass gain node of each stays listed)
Sirens == {node[1] : node \in gainNodes}

\* (faulty variant) the catch of playMP3Alarm ends the call: no fallback
CatchOnly(c) ==
    /\ Cardinality(Sirens) < MaxSirens
    /\ promises' = Without(promises, c)
    /\ isPlaying' = FALSE
    /\ UNCHANGED <<audioContext, oscillators, gainNodes, sounding>>
    /\ UNCHANGED <<audioElement, paused, clipState, listeners, fading, nextCall,
                   rejections>>

\* the catch of playMP3Alarm (isPlaying = false, return false) and then the
\* fallback of playFireAlarm, in one turn of the microtask queue
CatchAndFallback(c) ==
    /\ Cardinality(Sirens) < MaxSirens
    /\ promises' = Without(promises, c)
    /\ PlayGeneratedSiren(c)
    /\ UNCHANGED <<audioElement, paused, clipState, listeners, fading, nextCall, rejections>>

\* play() of call c rejects (the file is missing or does not decode, or
\* autoplay is refused)
ClipFails(c) ==
    /\ c \in Pending
    /\ CatchAndFallback(c)

\* the rejection that pause() queued for call c is delivered
AbortDelivered(c) ==
    /\ c \in Aborted
    /\ CatchAndFallback(c)

\* The clip of call c cannot be played, or its play() was aborted, and the
\* fallback fails: playGeneratedSiren throws, nothing catches it, and the
\* promise of playFireAlarm is rejected.  at = "init": init() throws (no
\* AudioContext can be constructed), before isPlaying = true; at = "voice":
\* ctx.createOscillator() throws for the first voice, after it.
SirenFails(c, at) ==
    /\ c \in DOMAIN promises
    /\ promises' = Without(promises, c)
    /\ rejections' = rejections + 1
    /\ IF at = "init"
       THEN /\ ~audioContext
            /\ isPlaying' = FALSE
            /\ UNCHANGED audioContext
       ELSE /\ audioContext' = TRUE
            /\ isPlaying' = TRUE
    /\ UNCHANGED <<audioElement, paused, clipState, listeners, oscillators,
                   gainNodes, sounding, fading, nextCall>>

\* the listeners onEnded/onError: isPlaying = false, both removed
RunListeners ==
    /\ isPlaying' = (IF listeners > 0 THEN FALSE ELSE isPlaying)
    /\ listeners' = 0

\* the clip reaches its end: 'ended' is fired
ClipEnded ==
    /\ clipState = "playing"
    /\ Pending = {}
    /\ clipState' = "idle"
    /\ paused' = TRUE
    /\ RunListeners
    /\ UNCHANGED <<audioContext, audioElement, promises, oscillators, gainNodes,
                   sounding, fading, nextCall, rejections>>

\* playback breaks off: 'error' is fired
ClipError ==
    /\ clipState = "playing"
    /\ Pending = {}
    /\ clipState' = "idle"
    /\ RunListeners
    /\ UNCHANGED <<audioContext, audioElement, paused, promises, oscillators,
                   gainNodes, sounding, fading, nextCall, rejections>>

\* whether the node's onended handler takes it out of this.oscillators:
\* oscillator.onended does, bassOsc.onended only disconnects
OnEndedRemoves(node) == node[2] \in MainVoices

\* a voice stops (at endTime, or 100 ms after stopAlarm): its onended runs
VoiceEnded(node) ==
    /\ node \in sounding
    /\ sounding' = sounding \ {node}
    /\ fading' = fading \ {node}
    /\ IF OnEndedRemoves(node)
       THEN /\ oscillators' = oscillators \ {node}
            /\ gainNodes' = gainNodes \ {node}
            /\ isPlaying' = (IF oscillators' = {} THEN FALSE ELSE isPlaying)
       ELSE UNCHANGED <<oscillators, gainNodes, isPlaying>>
    /\ UNCHANGED <<audioContext, audioElement, paused, clipState, promises,
                   listeners, nextCall, rejections>>

\* stopAlarm(): pause and rewind the clip when it is not paused (pause()
\* queues the rejection of the pending play() promises); return when there is
\* no audio context; else ramp every gain node down, stop every oscillator of
\* the list 100 ms from now, and isPlaying = false.
StopAlarm ==
    /\ IF audioElement /\ ~paused
       THEN /\ paused' = TRUE
            /\ clipState' = "idle"
            /\ promises' = [c \in DOMAIN promises |-> "aborted"]
       ELSE UNCHANGED <<paused, clipState, promises>>
    /\ IF ~audioContext
       THEN UNCHANGED <<fading, isPlaying>>
       ELSE /\ fading' = fading \cup (sounding \cap oscillators)
            /\ isPlaying' = FALSE
    /\ UNCHANGED <<audioContext, audioElement, listeners, oscillators, gainNodes,
                   sounding, nextCall, rejections>>

NextAudio ==
    \/ PlayFireAlarm /\ lastOp' = "playFireAlarm" /\ UNCHANGED <<decoderVars, appVars, cameraVars>>
    \/ \E c \in DOMAIN promises :
          ClipStarts(c) /\ lastOp' = "clipStarts" /\ UNCHANGED <<decoderVars, appVars, cameraVars>>
    \/ \E c \in DOMAIN promises :
          ClipFails(c) /\ lastOp' = "clipFails" /\ UNCHANGED <<decoderVars, appVars, cameraVars>>
    \/ \E c \in DOMAIN promises :
          AbortDelivered(c) /\ lastOp' = "abortDelivered" /\ UNCHANGED <<decoderVars, appVars, cameraVars>>
    \/ \E c \in DOMAIN promises, at \in {"init", "voice"} :
          SirenFails(c, at) /\ lastOp' = "sirenFails" /\ UNCHANGED <<decoderVars, appVars, cameraVars>>
    \/ ClipEnded /\ lastOp' = "clipEnded" /\ UNCHANGED <<decoderVars, appVars, cameraVars>>
    \/ ClipError /\ lastOp' = "clipError" /\ UNCHANGED <<decoderVars, appVars, cameraVars>>
    \/ \E node \in sounding :
          VoiceEnded(node) /\ lastOp' = "voiceEnded" /\ UNCHANGED <<decoderVars, appVars, cameraVars>>
    \/ StopAlarm /\ lastOp' = "stopAlarm" /\ UNCHANGED <<decoderVars, appVars, cameraVars>>

-----------------------------------------------------------------------------
(* Orchestration: App.jsx *)

\* firstFireFrame = null
Null == -1

\* Objects are stored as JSON text.  The keys of the alerts and history items,
\* in the order the object literals write them.
KeyOrder == <<"id", "type", "source", "detected", "frameNumber", "detectionCount",
              "wildfireProb", "framesWithFire", "firstFireFrame">>

\* keys whose Null stands for undefined (a property the literal does not set,
\* or sets from a field the response does not carry); elsewhere Null is null
OptionalKeys == {"id", "frameNumber", "wildfireProb"}

StringKeys == {"type", "source"}

BooleanKeys == {"detected"}

\* (faulty variant) only the last digit of a number is written
NumberText_LastDigit(n) == <<Digit(n % 10)>>

NumberText(n) == IF n < 10 THEN <<Digit(n)>> ELSE <<Digit(n \div 10), Digit(n % 10)>>

\* the JSON text of the value under key k
ValueText(k, v) ==
    IF k \in StringKeys THEN <<"\"", v, "\"">>
    ELSE IF k \in BooleanKeys THEN <<(IF v THEN "true" ELSE "false")>>
    ELSE IF v = Null THEN <<"null">>
    ELSE NumberText(v)

\* JSON.stringify leaves out the properties whose value is undefined
WrittenKeys(obj) ==
    SelectSeq(KeyOrder,
              LAMBDA k : k \in DOMAIN obj /\ ~(k \in OptionalKeys /\ obj[k] = Null))

RECURSIVE Join(_, _)
Join(texts, sep) ==
    IF DOMAIN texts = {} THEN <<>>
    ELSE IF Len(texts) = 1 THEN texts[1]
    ELSE texts[1] \o sep \o Join(Tail(texts), sep)

ObjectText(obj) ==
    LET ks == WrittenKeys(obj)
    IN  <<"{">>
        \o Join([i \in 1..Len(ks) |-> <<ks[i], ":">> \o ValueText(ks[i], obj[ks[i]])],
                <<",">>)
        \o <<"}">>

\* JSON.stringify(alerts), JSON.stringify(detectionHistory)
StringifyList(list) ==
    <<"[">> \o Join([i \in 1..Len(list) |-> ObjectText(list[i])], <<",">>) \o <<"]">>

\* position of the first token `tok` of a text, 0 when it has none
IndexOf(text, tok) ==
    IF \E i \in 1..Len(text) : text[i] = tok
    THEN CHOOSE i \in 1..Len(text) :
            text[i] = tok /\ \A j \in 1..(i - 1) : text[j] # tok
    ELSE 0

RECURSIVE SplitOn(_, _)
SplitOn(text, tok) ==
    LET i == IndexOf(text, tok)
    IN  IF i = 0 THEN <<text>>
        ELSE <<SubSeq(text, 1, i - 1)>> \o SplitOn(SubSeq(text, i + 1, Len(text)), tok)

DigitValue(tok) == CHOOSE n \in 0..9 : Digit(n) = tok

ParseNumber(t) ==
    IF Len(t) = 1 THEN DigitValue(t[1])
    ELSE 10 * DigitValue(t[1]) + DigitValue(t[2])

ParseValue(t) ==
    IF t[1] = "\"" THEN t[2]
    ELSE IF t = <<"true">> THEN TRUE
    ELSE IF t = <<"false">> THEN FALSE
    ELSE IF t = <<"null">> THEN Null
    ELSE ParseNumber(t)

\* the object a text {k:v,...} stands for
ParseObject(text) ==
    LET inner == SubSeq(text, 2, Len(text) - 1)
        fields == IF inner = <<>> THEN <<>> ELSE SplitOn(inner, ",")
        keys == {fields[i][1] : i \in 1..Len(fields)}
    IN  [k \in keys |->
            LET f == CHOOSE i \in 1..Len(fields) : fields[i][1] = k
            IN  ParseValue(SubSeq(fields[f], 3, Len(fields[f])))]

RECURSIVE ParseObjects(_)
ParseObjects(inner) ==
    IF inner = <<>> THEN <<>>
    ELSE LET i == IndexOf(inner, "}")
         IN  <<ParseObject(SubSeq(inner, 1, i))>>
             \o ParseObjects(SubSeq(inner, i + 2, Len(inner)))

\* JSON.parse of a stored list
ParseList(text) == ParseObjects(SubSeq(text, 2, Len(text) - 1))

\* localStorage.getItem of a key never written: null
NoItem == <<>>

\* saved ? JSON.parse(saved) : []
LoadList(saved) == IF saved # NoItem THEN ParseList(saved) ELSE <<>>

\* the two effects after the first render of App: both lists are written,
\* localStorage.setItem(key, JSON.stringify(...))
FirstEffects ==
    storage' = [alerts |-> StringifyList(alerts'),
                history |-> StringifyList(detectionHistory')]

\* the two effects after a later render: each runs when its dependency,
\* [alerts] or [detectionHistory], changed
SaveEffects ==
    storage' = [alerts |-> IF alerts' = alerts THEN storage.alerts
                           ELSE StringifyList(alerts'),
                history |-> IF detectionHistory' = detectionHistory
                            THEN storage.history
                            ELSE StringifyList(detectionHistory')]

\* a step of the application, with the effects of its render
Persist == SaveEffects /\ UNCHANGED oldUpTo

\* a step of the application that changes neither list: the effects, whose
\* dependencies are [alerts] and [detectionHistory], do not run
NoSave == UNCHANGED <<storage, oldUpTo>>

AppInit ==
    /\ isEmergencyStop = FALSE
    /\ isLoading = FALSE
    /\ isMonitoring = FALSE
    /\ instantAlert = <<>>
    /\ alerts = <<>>
    /\ detectionHistory = <<>>
    /\ runs = <<>>
    /\ alarmCalls = 0
    /\ errorsShown = 0
    /\ eventsSent = 0
    /\ nextId = 0
    /\ permission \in {"granted", "default", "denied"}
    /\ notifications = 0
    /\ permissionAsked = 0
    /\ storage = [alerts |-> StringifyList(<<>>), history |-> StringifyList(<<>>)]
    /\ oldUpTo = 0

\* audioAlert.playFireAlarm(3000), as App calls it
CallPlayFireAlarm ==
    /\ alarmCalls' = alarmCalls + 1
    /\ PlayFireAlarm

\* The events the streaming endpoint may send
StreamEventKinds == {"fire", "fire2", "fire0", "nofire", "done", "error", "bad"}

\* handleDetection for a video on the fire-smoke tab: the callbacks close over
\* the isEmergencyStop of the render in which the button was pressed, and
\* over the locals allDetections, firstFireFrame, totalFramesWithFire.
StartStreaming ==
    /\ ~isLoading
    /\ Len(runs) < MaxRuns
    /\ isLoading' = TRUE
    /\ runs' = Append(runs, [kind |-> "stream", pc |-> "reading",
                             stopSeen |-> isEmergencyStop,
                             nread |-> 0, allDetections |-> 0,
                             firstFireFrame |-> Null, totalFramesWithFire |-> 0])
    /\ UNCHANGED <<isEmergencyStop, isMonitoring, instantAlert, alerts,
                   detectionHistory, alarmCalls, errorsShown, eventsSent, nextId,
                   notifVars, audioVars>>

\* whether the frame callback takes the frame as a fire frame
IsFireFrame(frameData) == frameData.has_fire /\ frameData.ndet > 0

\* if (!firstFireFrame) firstFireFrame = frameData.frame
FirstFireFrame(old, frame) == IF old = Null \/ old = 0 THEN frame ELSE old

\* the isEmergencyStop that the run's callbacks test: the one of their closure
StopGate(run) == run.stopSeen

\* (faulty variant) the alarm and the notification are raised on every fire frame
FirstDetection_Always(total) == TRUE

\* totalFramesWithFire === 1: the alarm and the OS notification are raised
\* only for the first fire frame of the run
FirstDetection(total) == total = 1

\* onFrameDetection(frameData) of run r
OnFrameDetection(r, frameData) ==
    LET run == runs[r]
        total == run.totalFramesWithFire + 1
        alert == [id |-> nextId + 1, source |-> "stream",
                  frameNumber |-> frameData.frame]
    IN  IF IsFireFrame(frameData)
        THEN /\ runs' = [runs EXCEPT
                    ![r].totalFramesWithFire = total,
                    ![r].firstFireFrame = FirstFireFrame(run.firstFireFrame, frameData.frame),
                    ![r].allDetections = run.allDetections + frameData.ndet,
                    ![r].nread = run.nread + 1]
             /\ IF ~StopGate(run)
                THEN /\ nextId' = nextId + 1
                     /\ IF FirstDetection(total)
                        THEN CallPlayFireAlarm
                        ELSE UNCHANGED <<alarmCalls, audioVars>>
                     /\ instantAlert' = <<alert>>
                     /\ alerts' = <<alert>> \o alerts
                     /\ notifications' =
                            (IF FirstDetection(total) /\ permission = "granted"
                             THEN notifications + 1 ELSE notifications)
                ELSE UNCHANGED <<nextId, alarmCalls, audioVars, instantAlert, alerts,
                                 notifications>>
             /\ UNCHANGED <<isEmergencyStop, isLoading, isMonitoring,
                            detectionHistory, errorsShown, permission,
                            permissionAsked>>
        ELSE /\ runs' = [runs EXCEPT ![r].nread = run.nread + 1]
             /\ UNCHANGED <<isEmergencyStop, isLoading, isMonitoring, instantAlert,
                            alerts, detectionHistory, alarmCalls, errorsShown,
                            nextId, notifVars, audioVars>>

\* the history item onComplete builds from the run's locals
StreamHistoryItem(run) ==
    [type |-> "Fire & Smoke Detection (Streaming)",
     detected |-> run.allDetections > 0,
     detectionCount |-> run.allDetections,
     framesWithFire |-> run.totalFramesWithFire,
     firstFireFrame |-> run.firstFireFrame]

\* a run whose read loop has ended: its closure is dropped
EndedRun == [kind |-> "stream", pc |-> "ended", stopSeen |-> FALSE,
             nread |-> 0, allDetections |-> 0, firstFireFrame |-> Null,
             totalFramesWithFire |-> 0]

\* (faulty variant) the history item is recorded only when the alert gate is open
OnComplete_Gated(r) ==
    /\ detectionHistory' = (IF StopGate(runs[r]) THEN detectionHistory
                            ELSE <<StreamHistoryItem(runs[r])>> \o detectionHistory)
    /\ isLoading' = FALSE
    /\ UNCHANGED <<isEmergencyStop, isMonitoring, instantAlert, alerts, alarmCalls,
                   errorsShown, nextId, notifVars, audioVars>>

\* onComplete() of run r
OnComplete(r) ==
    /\ detectionHistory' = <<StreamHistoryItem(runs[r])>> \o detectionHistory
    /\ isLoading' = FALSE
    /\ UNCHANGED <<isEmergencyStop, isMonitoring, instantAlert, alerts, alarmCalls,
                   errorsShown, nextId, notifVars, audioVars>>

\* onError(error) of run r
OnError(r) ==
    /\ errorsShown' = errorsShown + 1
    /\ isLoading' = FALSE
    /\ UNCHANGED <<isEmergencyStop, isMonitoring, instantAlert, alerts,
                   detectionHistory, alarmCalls, nextId, notifVars, audioVars>>

\* the callbacks the loop body makes for one event of each kind, by the
\* number the server gives the event
CallbacksOf ==
    [kind \in StreamEventKinds, i \in 0..MaxEvents |->
        ProcessChunk(<<>>, EventText(kind, i)).calls]

\* reader.read() of run r hands over one event of the given kind: the loop
\* body runs on it and the callback it leads to, if any, is applied.  The
\* server numbers the events of a body from 0.
StreamRead(r, kind) ==
    /\ r \in 1..Len(runs)
    /\ runs[r].kind = "stream"
    /\ runs[r].pc = "reading"
    /\ eventsSent < MaxEvents
    /\ eventsSent' = eventsSent + 1
    /\ LET cbs == CallbacksOf[kind, runs[r].nread]
       IN  IF cbs = <<>>
           THEN /\ runs' = [runs EXCEPT ![r].nread = @ + 1]
                /\ UNCHANGED <<isEmergencyStop, isLoading, isMonitoring, instantAlert,
                               alerts, detectionHistory, alarmCalls, errorsShown,
                               nextId, notifVars, audioVars>>
           ELSE CASE cbs[1].cb = "frame" -> OnFrameDetection(r, cbs[1].data)
                  [] cbs[1].cb = "complete" ->
                        OnComplete(r) /\ runs' = [runs EXCEPT ![r].nread = @ + 1]
                  [] OTHER ->
                        OnError(r) /\ runs' = [runs EXCEPT ![r].nread = @ + 1]

\* reader.read() of run r reports the end of the body: onComplete(), break
StreamEnd(r) ==
    /\ r \in 1..Len(runs)
    /\ runs[r].kind = "stream"
    /\ runs[r].pc = "reading"
    /\ OnComplete(r)
    /\ runs' = [runs EXCEPT ![r] = EndedRun]
    /\ UNCHANGED eventsSent

\* a run that ended in the catch of handleDetection: its closure is dropped
FailedRun == [EndedRun EXCEPT !.pc = "failed"]

\* The request of run r fails at stream level: the response is not 2xx, or
\* reader.read() rejects (the connection drops).  The adapter throws, the
\* catch of detectFireSmokeStreaming calls onError(error), whose alert() shows
\* one message, and rethrows; the catch of handleDetection then shows its own
\* alert() and resets isLoading.
StreamFails(r) ==
    /\ r \in 1..Len(runs)
    /\ runs[r].kind = "stream"
    /\ runs[r].pc = "reading"
    /\ errorsShown' = (errorsShown + 1) + 1
    /\ isLoading' = FALSE
    /\ runs' = [runs EXCEPT ![r] = FailedRun]
    /\ UNCHANGED <<isEmergencyStop, isMonitoring, instantAlert, alerts,
                   detectionHistory, alarmCalls, eventsSent, nextId, notifVars,
                   audioVars>>

\* The batch path of handleDetection: an image on the fire-smoke tab
\* (detectFireSmoke) or a file on the satellite tab (detectSatelliteFire)
BatchTabs == {"fire-smoke", "satellite"}

StartBatch(tab) ==
    /\ ~isLoading
    /\ Len(runs) < MaxRuns
    /\ isLoading' = TRUE
    /\ runs' = Append(runs, [kind |-> tab, pc |-> "waiting",
                             stopSeen |-> isEmergencyStop,
                             nread |-> 0, allDetections |-> 0,
                             firstFireFrame |-> Null, totalFramesWithFire |-> 0])
    /\ UNCHANGED <<isEmergencyStop, isMonitoring, instantAlert, alerts,
                   detectionHistory, alarmCalls, errorsShown, eventsSent, nextId,
                   notifVars, audioVars>>

\* result.wildfire > 0.5, with probabilities in percent
Threshold == 50

\* The results the batch endpoints may return: `detections` as its length,
\* `wildfire` in percent, Null for a field the response does not carry.
BatchResults(tab) ==
    IF tab = "fire-smoke"
    THEN {[ndet |-> n, wildfire |-> Null] : n \in {Null, 0, 1, 2}}
    ELSE {[ndet |-> Null, wildfire |-> w] : w \in {Null, 0, Threshold, Threshold + 1}}

\* (faulty variant) a probability of exactly 0.5 counts as a threat
ThreatDetected_AtLeast(tab, result) ==
    IF tab = "fire-smoke"
    THEN result.ndet # Null /\ result.ndet > 0
    ELSE result.wildfire # Null /\ result.wildfire >= Threshold

\* threatDetected
ThreatDetected(tab, result) ==
    IF tab = "fire-smoke"
    THEN result.ndet # Null /\ result.ndet > 0
    ELSE result.wildfire # Null /\ result.wildfire # 0 /\ result.wildfire > Threshold

\* the history item of the batch path
BatchHistoryItem(tab, result) ==
    IF tab = "fire-smoke"
    THEN [type |-> "Fire & Smoke Detection",
          detected |-> ThreatDetected(tab, result),
          detectionCount |-> (IF result.ndet = Null THEN 0 ELSE result.ndet)]
    ELSE [type |-> "Satellite Analysis",
          detected |-> ThreatDetected(tab, result),
          wildfireProb |-> result.wildfire]

\* (faulty variant) the alert is added at the end of the ledger
BatchResult_Appends(r, result) ==
    LET run == runs[r]
        alert == [id |-> nextId + 1, source |-> run.kind, frameNumber |-> Null]
    IN  /\ r \in 1..Len(runs)
        /\ run.pc = "waiting"
        /\ result \in BatchResults(run.kind)
        /\ detectionHistory' = <<BatchHistoryItem(run.kind, result)>> \o detectionHistory
        /\ IF ThreatDetected(run.kind, result) /\ ~StopGate(run)
           THEN /\ nextId' = nextId + 1
                /\ alerts' = alerts \o <<alert>>
                /\ CallPlayFireAlarm
                /\ instantAlert' = <<alert>>
                /\ notifications' =
                       (IF permission = "granted" THEN notifications + 1
                        ELSE notifications)
                /\ permissionAsked' =
                       (IF permission = "default" THEN permissionAsked + 1
                        ELSE permissionAsked)
           ELSE UNCHANGED <<nextId, alerts, alarmCalls, audioVars, instantAlert,
                            notifications, permissionAsked>>
        /\ isLoading' = FALSE
        /\ runs' = [runs EXCEPT ![r] = EndedRun]
        /\ UNCHANGED <<isEmergencyStop, isMonitoring, errorsShown, eventsSent,
                       permission>>

\* the request of batch run r resolves with `result`
BatchResult(r, result) ==
    LET run == runs[r]
        alert == [id |-> nextId + 1, source |-> run.kind, frameNumber |-> Null]
    IN  /\ r \in 1..Len(runs)
        /\ run.pc = "waiting"
        /\ result \in BatchResults(run.kind)
        /\ detectionHistory' = <<BatchHistoryItem(run.kind, result)>> \o detectionHistory
        /\ IF ThreatDetected(run.kind, result) /\ ~StopGate(run)
           THEN /\ nextId' = nextId + 1
                /\ alerts' = <<alert>> \o alerts
                /\ CallPlayFireAlarm
                /\ instantAlert' = <<alert>>
                /\ notifications' =
                       (IF permission = "granted" THEN notifications + 1
                        ELSE notifications)
                /\ permissionAsked' =
                       (IF permission = "default" THEN permissionAsked + 1
                        ELSE permissionAsked)
           ELSE UNCHANGED <<nextId, alerts, alarmCalls, audioVars, instantAlert,
                            notifications, permissionAsked>>
        /\ isLoading' = FALSE
        /\ runs' = [runs EXCEPT ![r] = EndedRun]
        /\ UNCHANGED <<isEmergencyStop, isMonitoring, errorsShown, eventsSent,
                       permission>>

\* the request of batch run r fails: the catch of handleDetection
BatchFails(r) ==
    /\ r \in 1..Len(runs)
    /\ runs[r].pc = "waiting"
    /\ errorsShown' = errorsShown + 1
    /\ isLoading' = FALSE
    /\ runs' = [runs EXCEPT ![r] = FailedRun]
    /\ UNCHANGED <<isEmergencyStop, isMonitoring, instantAlert, alerts,
                   detectionHistory, alarmCalls, eventsSent, nextId, notifVars,
                   audioVars>>

\* the user answers a Notification.requestPermission() prompt: its then()
\* issues the notification when the answer is 'granted'
PermissionAnswered(answer) ==
    /\ permissionAsked > 0
    /\ permissionAsked' = permissionAsked - 1
    /\ permission' = answer
    /\ notifications' = (IF answer = "granted" THEN notifications + 1
                         ELSE notifications)
    /\ UNCHANGED <<isEmergencyStop, isLoading, isMonitoring, instantAlert, alerts,
                   detectionHistory, runs, alarmCalls, errorsShown, eventsSent,
                   nextId, audioVars>>

\* (faulty variant) the handler flips the flag instead of setting it
HandleEmergencyStop_Toggle ==
    /\ StopAlarm
    /\ isMonitoring' = FALSE
    /\ instantAlert' = <<>>
    /\ isEmergencyStop' = ~isEmergencyStop
    /\ isLoading' = FALSE
    /\ UNCHANGED <<alerts, detectionHistory, runs, alarmCalls, errorsShown, eventsSent,
                   nextId, notifVars>>

\* handleEmergencyStop
HandleEmergencyStop ==
    /\ StopAlarm
    /\ isMonitoring' = FALSE
    /\ instantAlert' = <<>>
    /\ isEmergencyStop' = TRUE
    /\ isLoading' = FALSE
    /\ UNCHANGED <<alerts, detectionHistory, runs, alarmCalls, errorsShown, eventsSent,
                   nextId, notifVars>>

\* the Emergency Stop button, shown while not stopped
StopButton == ~isEmergencyStop /\ HandleEmergencyStop

\* (faulty variant) resume also switches monitoring back on
HandleResumeMonitoring_Restart ==
    /\ isEmergencyStop' = FALSE
    /\ isMonitoring' = TRUE
    /\ UNCHANGED <<isLoading, instantAlert, alerts, detectionHistory,
                   runs, alarmCalls, errorsShown, eventsSent, nextId, notifVars,
                   audioVars>>

\* handleResumeMonitoring
HandleResumeMonitoring ==
    /\ isEmergencyStop' = FALSE
    /\ UNCHANGED <<isLoading, isMonitoring, instantAlert, alerts, detectionHistory,
                   runs, alarmCalls, errorsShown, eventsSent, nextId, notifVars,
                   audioVars>>

\* the Resume Monitoring button, shown while stopped
ResumeButton == isEmergencyStop /\ HandleResumeMonitoring

NextApp ==
    \/ StartStreaming /\ UNCHANGED <<decoderVars, cameraVars, lastOp>> /\ NoSave
    \/ \E r \in 1..Len(runs), kind \in StreamEventKinds :
          StreamRead(r, kind) /\ UNCHANGED <<decoderVars, cameraVars, lastOp>> /\ Persist
    \/ \E r \in 1..Len(runs) :
          StreamEnd(r) /\ UNCHANGED <<decoderVars, cameraVars, lastOp>> /\ Persist
    \/ \E r \in 1..Len(runs) :
          StreamFails(r) /\ UNCHANGED <<decoderVars, cameraVars, lastOp>> /\ NoSave
    \/ StopButton /\ UNCHANGED <<decoderVars, cameraVars, lastOp>> /\ NoSave
    \/ ResumeButton /\ UNCHANGED <<decoderVars, cameraVars, lastOp>> /\ NoSave

\* handleDetection on its batch path, next to streaming runs whose body
\* carries no event
NextBatch ==
    \/ \E tab \in BatchTabs :
          StartBatch(tab) /\ UNCHANGED <<decoderVars, cameraVars, lastOp>> /\ NoSave
    \/ \E r \in 1..Len(runs), result \in BatchResults("fire-smoke") \cup BatchResults("satellite") :
          BatchResult(r, result) /\ UNCHANGED <<decoderVars, cameraVars, lastOp>> /\ Persist
    \/ \E r \in 1..Len(runs) :
          BatchFails(r) /\ UNCHANGED <<decoderVars, cameraVars, lastOp>> /\ NoSave
    \/ \E answer \in {"granted", "denied", "default"} :
          PermissionAnswered(answer) /\ UNCHANGED <<decoderVars, cameraVars, lastOp>> /\ NoSave
    \/ StartStreaming /\ UNCHANGED <<decoderVars, cameraVars, lastOp>> /\ NoSave
    \/ \E r \in 1..Len(runs) :
          StreamEnd(r) /\ UNCHANGED <<decoderVars, cameraVars, lastOp>> /\ Persist
    \/ \E r \in 1..Len(runs) :
          StreamFails(r) /\ UNCHANGED <<decoderVars, cameraVars, lastOp>> /\ NoSave
    \/ StopButton /\ UNCHANGED <<decoderVars, cameraVars, lastOp>> /\ NoSave
    \/ ResumeButton /\ UNCHANGED <<decoderVars, cameraVars, lastOp>> /\ NoSave

-----------------------------------------------------------------------------
(* The alert ledger and the history: AlertStatus.jsx, DetectionLog.jsx, the
   clear handlers and the satellite alerts of App.jsx *)

\* severity of an alert, by the literal that made it: 'critical' for the
\* satellite alert, 'high' for the others
Severity(alert) == IF alert.source = "NASA FIRMS" THEN "critical" ELSE "high"

\* (now - alertTime) < thirtySeconds || alert.severity === 'high'
IsActive(alert) == alert.id > oldUpTo \/ Severity(alert) = "high"

\* activeAlerts of the alert panel
ActiveAlerts == SelectSeq(alerts, IsActive)

\* prev.filter((_, i) => i !== index), indices from 0
FilterOutIndex(prev, index) ==
    LET kept == {i \in 1..Len(prev) : i - 1 # index}
        KeptBefore(i) == Cardinality({j \in kept : j <= i})
    IN  [n \in 1..Cardinality(kept) |->
            prev[CHOOSE i \in kept : KeptBefore(i) = n]]

\* handleClearAlert(index)
HandleClearAlert(index) ==
    /\ alerts' = FilterOutIndex(alerts, index)
    /\ UNCHANGED <<isEmergencyStop, isLoading, isMonitoring, instantAlert,
                   detectionHistory, runs, alarmCalls, errorsShown, eventsSent,
                   nextId, notifVars, audioVars>>

\* the X button of the k-th alert the panel lists (k from 1):
\* activeAlerts.map((alert, index) => ... onClearAlert(index))
DismissShown(k) ==
    /\ k \in 1..Len(ActiveAlerts)
    /\ HandleClearAlert(k - 1)

\* alerts.forEach((_, index) => onClearAlert(index)): the updaters queued by
\* the calls are applied in order, each to the result of the one before
RECURSIVE ForEachClear(_, _, _)
ForEachClear(prev, index, length) ==
    IF index = length THEN prev
    ELSE ForEachClear(FilterOutIndex(prev, index), index + 1, length)

\* clearAllAlerts of the panel (its button is shown while alerts.length > 0),
\* the confirm() accepted
ClearAllAlerts ==
    /\ alerts # <<>>
    /\ alerts' = ForEachClear(alerts, 0, Len(alerts))
    /\ UNCHANGED <<isEmergencyStop, isLoading, isMonitoring, instantAlert,
                   detectionHistory, runs, alarmCalls, errorsShown, eventsSent,
                   nextId, notifVars, audioVars>>

\* handleClearAllAlerts: no component is given it
HandleClearAllAlerts ==
    /\ alerts' = <<>>
    /\ UNCHANGED <<isEmergencyStop, isLoading, isMonitoring, instantAlert,
                   detectionHistory, runs, alarmCalls, errorsShown, eventsSent,
                   nextId, notifVars, audioVars>>

\* clearLog of the detection log (shown while detectionHistory.length > 0),
\* the confirm() accepted: handleClearLog
HandleClearLog ==
    /\ detectionHistory # <<>>
    /\ detectionHistory' = <<>>
    /\ UNCHANGED <<isEmergencyStop, isLoading, isMonitoring, instantAlert, alerts,
                   runs, alarmCalls, errorsShown, eventsSent, nextId, notifVars,
                   audioVars>>

\* handleSatelliteFireDetected(data)
HandleSatelliteFireDetected ==
    LET satelliteAlert == [id |-> nextId + 1, source |-> "NASA FIRMS",
                           frameNumber |-> Null]
    IN  /\ nextId' = nextId + 1
        /\ alerts' = <<satelliteAlert>> \o alerts
        /\ instantAlert' = <<satelliteAlert>>
        /\ CallPlayFireAlarm
        /\ notifications' = (IF permission = "granted" THEN notifications + 1
                             ELSE notifications)
        /\ UNCHANGED <<isEmergencyStop, isLoading, isMonitoring, detectionHistory,
                       runs, errorsShown, eventsSent, permission, permissionAsked>>

\* loadSatelliteAlerts, from its fetch to its end: the response reports
\* `count` hotspots
LoadSatelliteAlerts(count) ==
    IF count > 0
    THEN HandleSatelliteFireDetected
    ELSE UNCHANGED <<isEmergencyStop, isLoading, isMonitoring, instantAlert, alerts,
                     detectionHistory, runs, alarmCalls, errorsShown, eventsSent,
                     nextId, notifVars, audioVars>>

\* thirty seconds pass since the creation of the alerts up to `id`
ThirtySecondsPass(id) ==
    /\ id \in (oldUpTo + 1)..nextId
    /\ oldUpTo' = id
    /\ UNCHANGED <<isEmergencyStop, isLoading, isMonitoring, instantAlert, alerts,
                   detectionHistory, runs, alarmCalls, errorsShown, eventsSent,
                   nextId, notifVars, storage>>

\* App is mounted anew: the initialisers of its state, alerts and
\* detectionHistory read from localStorage; the runs of the page before are
\* dropped, the effects of the first render store both lists
Mount ==
    /\ alerts' = LoadList(storage.alerts)
    /\ detectionHistory' = LoadList(storage.history)
    /\ isLoading' = FALSE
    /\ isMonitoring' = FALSE
    /\ instantAlert' = <<>>
    /\ isEmergencyStop' = FALSE
    /\ runs' = [r \in DOMAIN runs |-> EndedRun]
    /\ UNCHANGED <<alarmCalls, errorsShown, eventsSent, nextId, notifVars, audioVars>>

\* the results of the batch endpoints the ledger is exercised with: a response
\* that reports a threat and one that lacks its field, of either endpoint
LedgerResults ==
    {result \in BatchResults("fire-smoke") \cup BatchResults("satellite") :
        result.ndet \in {Null, 1} /\ result.wildfire \in {Null, Threshold + 1}}

NextLedger ==
    \/ \E tab \in BatchTabs :
          nextId < MaxAlerts /\ StartBatch(tab) /\ UNCHANGED <<decoderVars, cameraVars, lastOp>> /\ NoSave
    \/ \E r \in 1..Len(runs), result \in LedgerResults :
          BatchResult(r, result) /\ UNCHANGED <<decoderVars, cameraVars, lastOp>> /\ Persist
    \/ \E count \in 0..2 :
          nextId < MaxAlerts /\ LoadSatelliteAlerts(count) /\ UNCHANGED <<decoderVars, cameraVars, lastOp>> /\ Persist
    \/ \E k \in 1..Len(alerts) :
          DismissShown(k) /\ UNCHANGED <<decoderVars, cameraVars, lastOp>> /\ Persist
    \/ ClearAllAlerts /\ UNCHANGED <<decoderVars, cameraVars, lastOp>> /\ Persist
    \/ HandleClearLog /\ UNCHANGED <<decoderVars, cameraVars, lastOp>> /\ Persist
    \/ \E id \in 1..nextId :
          ThirtySecondsPass(id) /\ UNCHANGED <<decoderVars, audioVars, cameraVars, lastOp>>
    \/ Mount /\ UNCHANGED <<decoderVars, cameraVars, lastOp>> /\ FirstEffects /\ UNCHANGED oldUpTo

\* the satellite alerts next to the emergency stop and the alert panel
NextSatellite ==
    \/ \E count \in 0..2 :
          nextId < MaxAlerts /\ LoadSatelliteAlerts(count) /\ UNCHANGED <<decoderVars, cameraVars, lastOp>> /\ Persist
    \/ \E k \in 1..Len(alerts) :
          DismissShown(k) /\ UNCHANGED <<decoderVars, cameraVars, lastOp>> /\ Persist
    \/ ClearAllAlerts /\ UNCHANGED <<decoderVars, cameraVars, lastOp>> /\ Persist
    \/ \E id \in 1..nextId :
          ThirtySecondsPass(id) /\ UNCHANGED <<decoderVars, audioVars, cameraVars, lastOp>>
    \/ Mount /\ UNCHANGED <<decoderVars, cameraVars, lastOp>> /\ FirstEffects /\ UNCHANGED oldUpTo
    \/ StopButton /\ UNCHANGED <<decoderVars, cameraVars, lastOp>> /\ NoSave
    \/ ResumeButton /\ UNCHANGED <<decoderVars, cameraVars, lastOp>> /\ NoSave

-----------------------------------------------------------------------------
(* Capture loop: WebcamDetection.jsx, with the onFireDetected of App.jsx *)

CameraInit ==
    /\ hasPermission = FALSE
    /\ streamRef = FALSE
    /\ intervalRef = 0
    /\ timers = {}
    /\ requests = <<>>
    /\ stats = [framesProcessed |-> 0, fireDetections |-> 0]
    /\ framesSent = 0
    /\ nextTimer = 0
    /\ acquiring = 0
    /\ cameraMode = "local"
    /\ error = "none"
    /\ imgHandlers = [kind |-> "none", seen |-> FALSE]
    /\ imgSrc = "none"
    /\ imgState = "empty"
    /\ refreshIntervalRef = 0
    /\ pollTimers = {}
    /\ polls = 0
    /\ snapshots = 0
    /\ mounted = TRUE
    /\ liveStreams = 0

\* the Local Webcam / Network Camera buttons (shown while !hasPermission).
\* The img element is rendered in network mode only: leaving that mode
\* removes it, and coming back renders a new one, without handlers or src
\* (the events of a removed element are not followed).
SetCameraMode(mode) ==
    /\ mounted
    /\ ~hasPermission
    /\ cameraMode' = mode
    /\ error' = "none"
    /\ IF cameraMode = "network" /\ mode = "local"
       THEN /\ imgHandlers' = [kind |-> "none", seen |-> FALSE]
            /\ imgSrc' = "none"
            /\ imgState' = "empty"
       ELSE UNCHANGED <<imgHandlers, imgSrc, imgState>>
    /\ UNCHANGED <<loopVars, refreshIntervalRef, pollTimers, polls, snapshots,
                   sourceVars>>

\* startWebcam, from the Start Webcam button (shown while !hasPermission in
\* local mode), up to its await: getUserMedia is asked for a stream
StartWebcam ==
    /\ mounted
    /\ ~hasPermission
    /\ cameraMode = "local"
    /\ acquiring < MaxPending
    /\ acquiring' = acquiring + 1
    /\ UNCHANGED <<hasPermission, streamRef, intervalRef, timers, requests, stats,
                   framesSent, nextTimer, netVars, sourceVars>>

\* videoRef.current: the video element is rendered in local mode
VideoElement == mounted /\ cameraMode = "local"

\* imgRef.current: the img element is rendered in network mode
ImgElement == mounted /\ cameraMode = "network"

\* startWebcam after its await: getUserMedia grants a stream, which is put
\* in streamRef.current (in place of the one it holds) when the video element
\* is there and is let go otherwise, or refuses.  The state of an unmounted
\* component is not set.
GetUserMediaSettles(granted) ==
    /\ acquiring > 0
    /\ acquiring' = acquiring - 1
    /\ IF granted
       THEN /\ liveStreams < MaxStreams
            /\ liveStreams' = liveStreams + 1
            /\ IF VideoElement
               THEN streamRef' = TRUE /\ hasPermission' = TRUE /\ error' = "none"
               ELSE UNCHANGED <<streamRef, hasPermission, error>>
       ELSE /\ IF mounted
               THEN error' = "webcam" /\ hasPermission' = FALSE
               ELSE UNCHANGED <<error, hasPermission>>
            /\ UNCHANGED <<streamRef, liveStreams>>
    /\ UNCHANGED <<intervalRef, timers, requests, stats, framesSent, nextTimer,
                   cameraMode, imgHandlers, imgSrc, imgState, refreshIntervalRef,
                   pollTimers, polls, snapshots, mounted>>

\* what the user may have typed as the camera URL: nothing, text that
\* new URL() rejects, a URL
Urls == {"empty", "invalid", "valid"}

\* the body of startNetworkCamera: for a URL, the handlers of a new closure
\* are set on the image (proxyFailed false, refreshSnapshot closing over the
\* hasPermission of the render) and the proxy URL is assigned to its src
ConnectEffects(url) ==
    CASE url = "empty" ->
            /\ error' = "url-empty"
            /\ UNCHANGED <<hasPermission, cameraMode, imgHandlers, imgSrc, imgState,
                           refreshIntervalRef, pollTimers, polls, snapshots>>
      [] url = "invalid" ->
            /\ error' = "url-invalid"
            /\ hasPermission' = FALSE
            /\ UNCHANGED <<cameraMode, imgHandlers, imgSrc, imgState,
                           refreshIntervalRef, pollTimers, polls, snapshots>>
      [] OTHER ->
            IF cameraMode = "network"
            THEN /\ imgHandlers' = [kind |-> "proxy", seen |-> hasPermission]
                 /\ imgSrc' = "proxy"
                 /\ imgState' = "loading"
                 /\ snapshots' = snapshots + 1
                 /\ UNCHANGED <<hasPermission, cameraMode, error, refreshIntervalRef,
                                pollTimers, polls>>
            ELSE UNCHANGED <<hasPermission, netVars>>

\* startNetworkCamera, from the Connect Camera button (shown while
\* !hasPermission in network mode)
StartNetworkCamera(url) ==
    /\ mounted
    /\ ~hasPermission
    /\ cameraMode = "network"
    /\ snapshots < MaxSnapshots
    /\ ConnectEffects(url)
    /\ UNCHANGED <<streamRef, intervalRef, timers, requests, stats, framesSent,
                   nextTimer, acquiring, sourceVars>>

\* the snapshot timer the onload handlers set when refreshIntervalRef holds
\* none: that of the proxy handlers runs refreshSnapshot, that of the direct
\* handlers its own callback
SetRefreshInterval ==
    IF refreshIntervalRef = 0
    THEN /\ refreshIntervalRef' = snapshots
         /\ pollTimers' = pollTimers \cup {[id |-> snapshots,
                                           kind |-> imgHandlers.kind,
                                           seen |-> imgHandlers.seen]}
    ELSE UNCHANGED <<refreshIntervalRef, pollTimers>>

\* the snapshot requested last arrives: imgRef.current.onload
ImgLoads ==
    /\ ImgElement
    /\ imgState = "loading"
    /\ imgState' = "loaded"
    /\ IF imgHandlers.kind = "none"
       THEN UNCHANGED <<hasPermission, error, refreshIntervalRef, pollTimers>>
       ELSE /\ hasPermission' = TRUE
            /\ error' = "none"
            /\ SetRefreshInterval
    /\ UNCHANGED <<streamRef, intervalRef, timers, requests, stats, framesSent,
                   nextTimer, acquiring, cameraMode, imgHandlers, imgSrc, polls,
                   snapshots, sourceVars>>

\* clearInterval(refreshIntervalRef.current); refreshIntervalRef.current = null
ClearRefreshInterval ==
    IF refreshIntervalRef # 0
    THEN /\ pollTimers' = {t \in pollTimers : t.id # refreshIntervalRef}
         /\ refreshIntervalRef' = 0
    ELSE UNCHANGED <<refreshIntervalRef, pollTimers>>

\* (faulty variant) a proxy failure is final: no direct request is made
ImgFails_NoFallback ==
    /\ ImgElement
    /\ imgState = "loading"
    /\ hasPermission' = FALSE
    /\ imgState' = "broken"
    /\ error' = (IF imgHandlers.kind = "none"
                 THEN (IF hasPermission THEN "stream" ELSE error)
                 ELSE "connect")
    /\ IF imgHandlers.kind = "none"
       THEN UNCHANGED <<refreshIntervalRef, pollTimers>>
       ELSE ClearRefreshInterval
    /\ UNCHANGED <<imgHandlers, imgSrc, snapshots>>
    /\ UNCHANGED <<streamRef, intervalRef, timers, requests, stats, framesSent,
                   nextTimer, acquiring, cameraMode, polls, sourceVars>>

\* the snapshot requested last fails.  The onError of the img element runs
\* (it marks the source as not connected when it was connected), then
\* imgRef.current.onerror: that of the proxy handlers marks the closure as
\* fallen back, assigns the direct URL to src and replaces both handlers by
\* the direct ones; that of the direct handlers marks the source as not
\* connected and clears the snapshot timer.
ImgFails ==
    /\ ImgElement
    /\ imgState = "loading"
    /\ hasPermission' = FALSE
    /\ CASE imgHandlers.kind = "proxy" ->
               /\ error' = "proxy"
               /\ imgSrc' = "direct"
               /\ imgState' = "loading"
               /\ snapshots' = snapshots + 1
               /\ imgHandlers' = [kind |-> "direct", seen |-> imgHandlers.seen]
               /\ UNCHANGED <<refreshIntervalRef, pollTimers>>
         [] imgHandlers.kind = "direct" ->
               /\ error' = "connect"
               /\ imgState' = "broken"
               /\ ClearRefreshInterval
               /\ UNCHANGED <<imgHandlers, imgSrc, snapshots>>
         [] OTHER ->
               /\ error' = (IF hasPermission THEN "stream" ELSE error)
               /\ imgState' = "broken"
               /\ UNCHANGED <<imgHandlers, imgSrc, snapshots, refreshIntervalRef,
                              pollTimers>>
    /\ UNCHANGED <<streamRef, intervalRef, timers, requests, stats, framesSent,
                   nextTimer, acquiring, cameraMode, polls, sourceVars>>

\* snapshot timer t fires.  refreshSnapshot assigns a new proxy URL when the
\* image is there and the hasPermission of its closure is true; the callback
\* of the direct handlers assigns a new direct URL when the image is there.
PollTick(t) ==
    /\ t \in pollTimers
    /\ polls < MaxPolls
    /\ polls' = polls + 1
    /\ IF ImgElement /\ (t.kind = "direct" \/ t.seen)
       THEN /\ imgSrc' = t.kind
            /\ imgState' = "loading"
            /\ snapshots' = snapshots + 1
       ELSE UNCHANGED <<imgSrc, imgState, snapshots>>
    /\ UNCHANGED <<loopVars, cameraMode, error, imgHandlers, refreshIntervalRef,
                   pollTimers, sourceVars>>

\* the body of stopCamera, with the cameraMode its closure holds: the tracks
\* of the stream in streamRef.current are stopped; or the handlers and the
\* src of the image, when it is there, and the snapshot timer are cleared
StopCameraEffects(mode) ==
    IF mode = "local"
    THEN /\ streamRef' = FALSE
         /\ liveStreams' = (IF streamRef THEN liveStreams - 1 ELSE liveStreams)
         /\ UNCHANGED <<imgHandlers, imgSrc, imgState, refreshIntervalRef,
                        pollTimers>>
    ELSE /\ IF ImgElement
            THEN /\ imgHandlers' = [kind |-> "none", seen |-> FALSE]
                 /\ imgSrc' = "none"
                 /\ imgState' = "empty"
            ELSE UNCHANGED <<imgHandlers, imgSrc, imgState>>
         /\ ClearRefreshInterval
         /\ UNCHANGED <<streamRef, liveStreams>>

\* stopCamera, from the Stop Camera button (shown while hasPermission)
StopCamera ==
    /\ mounted
    /\ hasPermission
    /\ StopCameraEffects(cameraMode)
    /\ hasPermission' = FALSE
    /\ UNCHANGED <<intervalRef, timers, requests, stats, framesSent, nextTimer,
                   acquiring, cameraMode, error, polls, snapshots, mounted>>

\* startMonitoring: without a connected source it calls startWebcam() or
\* startNetworkCamera() and goes on without waiting for either; then the
\* flag is set and the timer started.  The timer's callback closes over the
\* captureAndDetect, and so the onFireDetected and the isEmergencyStop, of
\* the render in which the function was made.
StartMonitoring ==
    /\ nextTimer < MaxTimers
    /\ IF ~hasPermission
       THEN IF cameraMode = "local"
            THEN acquiring' = acquiring + 1 /\ UNCHANGED <<hasPermission, netVars>>
            ELSE (\E url \in Urls : ConnectEffects(url)) /\ UNCHANGED acquiring
       ELSE UNCHANGED <<hasPermission, netVars, acquiring>>
    /\ isMonitoring' = TRUE
    /\ nextTimer' = nextTimer + 1
    /\ intervalRef' = nextTimer + 1
    /\ timers' = timers \cup {[id |-> nextTimer + 1, stopSeen |-> isEmergencyStop]}
    /\ UNCHANGED <<streamRef, requests, stats, framesSent, sourceVars>>

\* the Start Monitoring button, shown while hasPermission and !isMonitoring
StartMonitoringButton ==
    mounted /\ hasPermission /\ ~isMonitoring /\ StartMonitoring

\* clearInterval(intervalRef.current)
ClearInterval(ts, id) == {t \in ts : t.id # id}

\* stopMonitoring, from the Stop Monitoring button (shown while hasPermission
\* and isMonitoring)
StopMonitoring ==
    /\ mounted
    /\ hasPermission
    /\ isMonitoring
    /\ isMonitoring' = FALSE
    /\ IF intervalRef # 0
       THEN /\ timers' = ClearInterval(timers, intervalRef)
            /\ intervalRef' = 0
       ELSE UNCHANGED <<timers, intervalRef>>
    /\ UNCHANGED <<hasPermission, streamRef, requests, stats, framesSent, nextTimer>>

\* WebcamDetection unmounts (another tab is chosen): the cleanup of the
\* effect with no dependencies runs the stopCamera and the stopMonitoring of
\* the first render, whose cameraMode is the initial 'local'
Unmount ==
    /\ mounted
    /\ mounted' = FALSE
    /\ StopCameraEffects("local")
    /\ isMonitoring' = FALSE
    /\ IF intervalRef # 0
       THEN /\ timers' = ClearInterval(timers, intervalRef)
            /\ intervalRef' = 0
       ELSE UNCHANGED <<timers, intervalRef>>
    /\ UNCHANGED <<hasPermission, requests, stats, framesSent, nextTimer, acquiring,
                   cameraMode, error, polls, snapshots>>

\* timer t fires: captureAndDetect up to its await.  The video element has
\* current data only while a device stream is attached to it; then a frame is
\* drawn and sent.
Tick(t) ==
    /\ t \in timers
    /\ VideoElement
    /\ streamRef
    /\ framesSent < MaxFrames
    /\ framesSent' = framesSent + 1
    /\ requests' = Append(requests, [stopSeen |-> t.stopSeen])
    /\ UNCHANGED <<hasPermission, streamRef, intervalRef, timers, stats, nextTimer>>

RemoveAt(s, i) == SubSeq(s, 1, i - 1) \o SubSeq(s, i + 1, Len(s))

\* onFireDetected(alert) of App, as closed over by the request
OnFireDetected(stopSeen) ==
    \* the alert captureAndDetect makes has no id
    LET alert == [id |-> Null, source |-> "webcam", frameNumber |-> Null]
        historyItem == [type |-> "Live Camera Detection", detected |-> TRUE,
                        detectionCount |-> 0, framesWithFire |-> 0,
                        firstFireFrame |-> Null]
    IN  IF ~stopSeen
        THEN /\ CallPlayFireAlarm
             /\ alerts' = <<alert>> \o alerts
             /\ instantAlert' = <<alert>>
             /\ detectionHistory' = <<historyItem>> \o detectionHistory
        ELSE UNCHANGED <<alarmCalls, audioVars, alerts, instantAlert,
                         detectionHistory>>

\* (faulty variant) a fire is counted only when the response lists detections
FrameResponse_CountsListed(i, has_fire, ndet) ==
    /\ i \in 1..Len(requests)
    /\ requests' = RemoveAt(requests, i)
    /\ stats' = [framesProcessed |-> stats.framesProcessed + 1,
                 fireDetections |-> stats.fireDetections
                                    + (IF has_fire /\ ndet > 0 THEN 1 ELSE 0)]
    /\ IF has_fire /\ ndet > 0
       THEN OnFireDetected(requests[i].stopSeen)
       ELSE UNCHANGED <<alarmCalls, audioVars, alerts, instantAlert,
                        detectionHistory>>
    /\ UNCHANGED <<hasPermission, streamRef, intervalRef, timers, framesSent,
                   nextTimer, isEmergencyStop, isLoading, isMonitoring, runs,
                   errorsShown, eventsSent, nextId, notifVars>>

\* (faulty variant) a response that arrives while monitoring is off is dropped
FrameResponse_DroppedAfterStop(i, has_fire, ndet) ==
    /\ i \in 1..Len(requests)
    /\ requests' = RemoveAt(requests, i)
    /\ IF isMonitoring
       THEN /\ stats' = [framesProcessed |-> stats.framesProcessed + 1,
                         fireDetections |-> stats.fireDetections
                                            + (IF has_fire THEN 1 ELSE 0)]
            /\ IF has_fire /\ ndet > 0
               THEN OnFireDetected(requests[i].stopSeen)
               ELSE UNCHANGED <<alarmCalls, audioVars, alerts, instantAlert,
                                detectionHistory>>
       ELSE UNCHANGED <<stats, alarmCalls, audioVars, alerts, instantAlert,
                        detectionHistory>>
    /\ UNCHANGED <<hasPermission, streamRef, intervalRef, timers, framesSent,
                   nextTimer, isEmergencyStop, isLoading, isMonitoring, runs,
                   errorsShown, eventsSent, nextId, notifVars>>

\* the response to request i arrives: captureAndDetect after its await
FrameResponse(i, has_fire, ndet) ==
    /\ i \in 1..Len(requests)
    /\ requests' = RemoveAt(requests, i)
    /\ stats' = [framesProcessed |-> stats.framesProcessed + 1,
                 fireDetections |-> stats.fireDetections + (IF has_fire THEN 1 ELSE 0)]
    /\ IF has_fire /\ ndet > 0
       THEN OnFireDetected(requests[i].stopSeen)
       ELSE UNCHANGED <<alarmCalls, audioVars, alerts, instantAlert,
                        detectionHistory>>
    /\ UNCHANGED <<hasPermission, streamRef, intervalRef, timers, framesSent,
                   nextTimer, isEmergencyStop, isLoading, isMonitoring, runs,
                   errorsShown, eventsSent, nextId, notifVars>>

\* (faulty variant) a failed request counts as a processed frame
FrameFails_Counts(i) ==
    /\ i \in 1..Len(requests)
    /\ requests' = RemoveAt(requests, i)
    /\ stats' = [stats EXCEPT !.framesProcessed = @ + 1]
    /\ UNCHANGED <<hasPermission, streamRef, intervalRef, timers, framesSent,
                   nextTimer>>

\* request i fails: the catch of captureAndDetect logs it
FrameFails(i) ==
    /\ i \in 1..Len(requests)
    /\ requests' = RemoveAt(requests, i)
    /\ UNCHANGED <<hasPermission, streamRef, intervalRef, timers, stats, framesSent,
                   nextTimer>>

appOnly == <<isEmergencyStop, isLoading, instantAlert, alerts, detectionHistory,
             runs, alarmCalls, errorsShown, eventsSent, nextId, notifVars, storage,
             oldUpTo>>

NextCamera ==
    \/ StartWebcam /\ UNCHANGED <<decoderVars, audioVars, appVars, lastOp>>
    \/ \E granted \in BOOLEAN :
          /\ GetUserMediaSettles(granted)
          /\ UNCHANGED <<decoderVars, audioVars, appVars, lastOp>>
    \/ StopCamera /\ UNCHANGED <<decoderVars, audioVars, appVars, lastOp>>
    \/ StartMonitoringButton /\ UNCHANGED <<decoderVars, audioVars, appOnly, lastOp>>
    \/ StopMonitoring /\ UNCHANGED <<decoderVars, audioVars, appOnly, acquiring, netVars, sourceVars, lastOp>>
    \/ \E t \in timers :
          Tick(t) /\ UNCHANGED <<decoderVars, audioVars, appVars, acquiring, netVars, sourceVars, lastOp>>
    \/ \E i \in 1..Len(requests), has_fire \in BOOLEAN, ndet \in 0..1 :
          FrameResponse(i, has_fire, ndet) /\ UNCHANGED <<decoderVars, acquiring, netVars, sourceVars, lastOp>> /\ Persist
    \/ \E i \in 1..Len(requests) :
          FrameFails(i) /\ UNCHANGED <<decoderVars, audioVars, appVars, acquiring, netVars, sourceVars, lastOp>>
    \/ StopButton /\ UNCHANGED <<decoderVars, cameraVars, lastOp>> /\ NoSave
    \/ ResumeButton /\ UNCHANGED <<decoderVars, cameraVars, lastOp>> /\ NoSave

\* the network source: connection, snapshot polling, disconnection
NextNetCam ==
    \/ \E mode \in {"network"} :
          SetCameraMode(mode) /\ UNCHANGED <<decoderVars, audioVars, appVars, lastOp>>
    \/ \E url \in Urls :
          StartNetworkCamera(url) /\ UNCHANGED <<decoderVars, audioVars, appVars, lastOp>>
    \/ ImgLoads /\ UNCHANGED <<decoderVars, audioVars, appVars, lastOp>>
    \/ ImgFails /\ UNCHANGED <<decoderVars, audioVars, appVars, lastOp>>
    \/ \E t \in pollTimers :
          PollTick(t) /\ UNCHANGED <<decoderVars, audioVars, appVars, lastOp>>
    \/ StopCamera /\ UNCHANGED <<decoderVars, audioVars, appVars, lastOp>>

\* the life of the camera sources: both modes, acquisition, monitoring and
\* the unmounting of the component
NextLifecycle ==
    \/ \E mode \in {"local", "network"} :
          SetCameraMode(mode) /\ UNCHANGED <<decoderVars, audioVars, appVars, lastOp>>
    \/ StartWebcam /\ UNCHANGED <<decoderVars, audioVars, appVars, lastOp>>
    \/ \E granted \in BOOLEAN :
          /\ GetUserMediaSettles(granted)
          /\ UNCHANGED <<decoderVars, audioVars, appVars, lastOp>>
    \/ \E url \in Urls :
          StartNetworkCamera(url) /\ UNCHANGED <<decoderVars, audioVars, appVars, lastOp>>
    \/ ImgLoads /\ UNCHANGED <<decoderVars, audioVars, appVars, lastOp>>
    \/ ImgFails /\ UNCHANGED <<decoderVars, audioVars, appVars, lastOp>>
    \/ \E t \in pollTimers :
          PollTick(t) /\ UNCHANGED <<decoderVars, audioVars, appVars, lastOp>>
    \/ StopCamera /\ UNCHANGED <<decoderVars, audioVars, appVars, lastOp>>
    \/ StartMonitoringButton /\ UNCHANGED <<decoderVars, audioVars, appOnly, lastOp>>
    \/ StopMonitoring /\ UNCHANGED <<decoderVars, audioVars, appOnly, acquiring, netVars, sourceVars, lastOp>>
    \/ Unmount /\ UNCHANGED <<decoderVars, audioVars, appOnly, lastOp>>

-----------------------------------------------------------------------------
(* Specifications *)

\* the notification permission matters to handleDetection only; the other
\* specifications start with the browser's default
InitDecoder ==
    /\ DecoderStart /\ AudioInit /\ AppInit /\ CameraInit /\ lastOp = "init"
    /\ permission = "default"

SpecDecoder == InitDecoder /\ [][NextDecoder]_vars

InitAudio ==
    /\ DecoderIdle /\ AudioInit /\ AppInit /\ CameraInit /\ lastOp = "init"
    /\ permission = "default"

SpecAudio == InitAudio /\ [][NextAudio]_vars

\* the streaming path tests the permission for 'granted' only
InitApp ==
    /\ DecoderIdle /\ AudioInit /\ AppInit /\ CameraInit /\ lastOp = "init"
    /\ permission \in {"granted", "default"}

SpecApp == InitApp /\ [][NextApp]_vars

InitBatch == DecoderIdle /\ AudioInit /\ AppInit /\ CameraInit /\ lastOp = "init"

SpecBatch == InitBatch /\ [][NextBatch]_vars

InitCamera ==
    /\ DecoderIdle /\ AudioInit /\ AppInit /\ CameraInit /\ lastOp = "init"
    /\ permission = "default"

SpecCamera == InitCamera /\ [][NextCamera]_vars

SpecNetCam == InitCamera /\ [][NextNetCam]_vars

SpecLifecycle == InitCamera /\ [][NextLifecycle]_vars

InitLedger ==
    /\ DecoderIdle /\ AudioInit /\ AppInit /\ CameraInit /\ lastOp = "init"
    /\ permission = "default"

SpecLedger == InitLedger /\ [][NextLedger]_vars

SpecSatellite == InitLedger /\ [][NextSatellite]_vars

-----------------------------------------------------------------------------
(* Decoder properties *)

\* what the read loop does with the whole body handed over as one chunk
UncutCalls(s) == ProcessChunk(<<>>, s).calls \o <<[cb |-> "complete"]>>

\* C6: however the body is cut into chunks (inside a JSON payload and inside
\* the delimiter included), the finished read loop has made the same callback
\* invocations, with the same payloads and in the same order, as it makes for
\* the body in one piece.
C6_ChunkInvariance ==
    dpc = "done" => calls = UncutCalls(stream)

\* a finished run that was cut inside a payload and inside a delimiter and
\* that made a frame callback
C6_Witness ==
    /\ dpc = "done"
    /\ cutsSeen = {"json", "delimiter"}
    /\ \E i \in 1..Len(calls) : calls[i].cb = "frame"

FrameKinds == {"fire", "nofire"}

FrameKindSeqs == UNION {[1..n -> FrameKinds] : n \in 0..MaxEvents}

\* the frame payload the i-th event of a body carries
FrameOf(kind, i) ==
    [type |-> "frame", frame |-> i, has_fire |-> (kind = "fire"),
     ndet |-> (IF kind = "fire" THEN 1 ELSE 0)]

ExpectedFrameCalls(ks) == [i \in 1..Len(ks) |-> [cb |-> "frame", data |-> FrameOf(ks[i], i)]]

IsPrefix(s, t) == Len(s) <= Len(t) /\ SubSeq(t, 1, Len(s)) = s

\* C7: for a body made of complete, delimiter-terminated data events that
\* carry frame payloads, the frame callback is invoked once per event, in
\* arrival order: at every moment the invocations made are a prefix of the
\* frames sent, and at the end they are all of them, followed by completion.
C7_OncePerEventInOrder ==
    \A ks \in FrameKindSeqs :
        stream = BodyText(ks, 1) =>
            /\ IsPrefix(calls, ExpectedFrameCalls(ks) \o <<[cb |-> "complete"]>>)
            /\ dpc = "done" => calls = ExpectedFrameCalls(ks) \o <<[cb |-> "complete"]>>

\* a finished run over two frame events, cut inside a payload
C7_Witness ==
    /\ dpc = "done"
    /\ "json" \in cutsSeen
    /\ \E ks \in FrameKindSeqs : Len(ks) >= 2 /\ stream = BodyText(ks, 1)
    /\ Len(calls) >= 3

\* C8 (as claimed): once {done:true} has been decoded, no later event reaches
\* the frame callback.  The loop has no break on the sentinel, so this fails.
C8_DoneEndsIteration ==
    \A i, j \in 1..Len(calls) :
        (i < j /\ calls[i].cb = "complete") => calls[j].cb # "frame"

\* C10 (as claimed): after {error: msg} the error callback has the message,
\* no later event reaches the frame callback and the completion callback is
\* not invoked.  The loop goes on after the sentinel, so this fails.
C10_ErrorEndsIteration ==
    \A i \in 1..Len(calls) :
        calls[i].cb = "error" =>
            /\ calls[i].message = ErrorPayload.message
            /\ \A j \in (i + 1)..Len(calls) : calls[j].cb \notin {"frame", "complete"}

\* bodies of frame events and of data events whose payload is not valid JSON
SkipKindSeqs == UNION {[1..n -> FrameKinds \cup {"bad"}] : n \in 0..MaxEvents}

\* the frame callbacks due for the events of ks from the i-th on, the
\* malformed ones left out
RECURSIVE ExpectedSkipping(_, _)
ExpectedSkipping(ks, i) ==
    IF i > Len(ks) THEN <<>>
    ELSE (IF ks[i] = "bad" THEN <<>>
          ELSE <<[cb |-> "frame", data |-> FrameOf(ks[i], i)]>>)
           \o ExpectedSkipping(ks, i + 1)

\* C13: a data event whose payload is not valid JSON is skipped: no callback
\* is made for it, the valid events before and after it are delivered in
\* order, and the run completes.
C13_MalformedSkipped ==
    \A ks \in SkipKindSeqs :
        stream = BodyText(ks, 1) =>
            /\ IsPrefix(calls, ExpectedSkipping(ks, 1) \o <<[cb |-> "complete"]>>)
            /\ dpc = "done" => calls = ExpectedSkipping(ks, 1) \o <<[cb |-> "complete"]>>

\* a finished run over a malformed event followed by a frame event: the
\* frame was delivered and the run completed
C13_Witness ==
    /\ dpc = "done"
    /\ stream = BodyText(<<"bad", "fire">>, 1)
    /\ calls = <<[cb |-> "frame", data |-> FrameOf("fire", 2)], [cb |-> "complete"]>>

\* the body carries no terminal sentinel and no error sentinel
NoSentinel(s) == \A i \in 1..Len(s) : s[i] \notin {"D", "E"}

CompleteCalls == {i \in 1..Len(calls) : calls[i].cb = "complete"}

\* C14: when the body ends without a sentinel (its last event cut short
\* included), the read that reports the end ends the loop: the completion
\* callback has then been invoked exactly once, as the last callback, the
\* error callback never, and the loop takes no further step.
C14_EofCompletes ==
    NoSentinel(stream) =>
        /\ \A i \in 1..Len(calls) : calls[i].cb # "error"
        /\ Cardinality(CompleteCalls) = (IF dpc = "done" THEN 1 ELSE 0)
        /\ dpc = "done" => (calls[Len(calls)].cb = "complete" /\ ~ENABLED NextDecoder)
        /\ (dpc = "reading" /\ sent = Len(stream)) => ENABLED ReadDone

\* a finished run over a body without sentinel whose last event was cut short:
\* one frame delivered, then completion, the partial event left in the buffer
C14_Witness ==
    /\ dpc = "done"
    /\ NoSentinel(stream)
    /\ buffer # <<>>
    /\ Len(calls) = 2 /\ calls[1].cb = "frame" /\ calls[2].cb = "complete"

-----------------------------------------------------------------------------
(* Alarm engine properties *)

\* the siren groups that sound and have not been told to stop
ActiveGroups == {node[1] : node \in sounding \ fading}

ActivePlaybacks == Cardinality(ActiveGroups) + (IF clipState = "playing" THEN 1 ELSE 0)

\* C3 (as claimed): at every instant at most one alarm playback is active,
\* the clip or one group of synthesized voices, under every interleaving of
\* playFireAlarm, clip start and failure, and stopAlarm; and a playFireAlarm
\* call made while isPlaying changes nothing in the engine.  A play() promise
\* that stopAlarm aborted falls back to the siren after a later call has
\* started the clip, so this fails.
C3_AtMostOnePlayback ==
    /\ [](ActivePlaybacks <= 1)
    /\ [][(isPlaying /\ lastOp' = "playFireAlarm") => UNCHANGED audioVars]_vars

\* C4 (as claimed): after stopAlarm returns isPlaying is false, from every
\* engine state.  With no audio context stopAlarm returns before the reset,
\* so a stop during clip playback leaves isPlaying true.
C4_StopLeavesNotPlaying ==
    lastOp = "stopAlarm" => ~isPlaying

\* C5 (as claimed): when the alarm ends naturally (the last voice stops at
\* its scheduled end, no stop having been forced, or the clip reaches its
\* end) isPlaying is false and no oscillator is left in the list.  The bass
\* voice is never taken out of the list, so after a siren this fails.
C5_NaturalEndReleases ==
    [][((lastOp' \in {"voiceEnded", "clipEnded"}) /\ fading = {} /\ sounding' = {}
          /\ clipState' = "idle" /\ promises' = <<>>)
        => (~isPlaying' /\ oscillators' = {})]_vars

-----------------------------------------------------------------------------
(* Orchestration properties *)

\* the step hands a fire frame (has_fire, detections not empty) to the frame
\* callback of some streaming run
FireFrameStep ==
    \E r \in 1..Len(runs) :
        /\ runs[r].pc = "reading"
        /\ runs'[r].totalFramesWithFire = runs[r].totalFramesWithFire + 1

\* C1 (as claimed): while the emergency-stop flag is set no step adds an
\* alert to the ledger or calls playFireAlarm, runs started before the stop
\* included; and with the flag clear, a fire detection adds exactly one
\* alert.  The callbacks test the flag of the render that started the run,
\* so both halves fail.
C1_StopGatesAlerts ==
    [][/\ isEmergencyStop =>
             (Len(alerts') <= Len(alerts) /\ alarmCalls' = alarmCalls)
       /\ (~isEmergencyStop /\ FireFrameStep) => Len(alerts') = Len(alerts) + 1]_vars

\* C9 (as claimed): every completed streaming run adds exactly one history
\* item: never more items than runs, and as many as runs once all have
\* ended.  {done:true} and the end of the body each call onComplete, so a run
\* that ends with the sentinel adds two.
C9_OneHistoryItemPerRun ==
    /\ Len(detectionHistory) <= Len(runs)
    /\ (\A r \in 1..Len(runs) : runs[r].pc = "ended")
          => Len(detectionHistory) = Len(runs)

\* C12: in a streaming run with the emergency stop inactive (at the start
\* of the run and now) and notification permission granted, every fire frame
\* adds exactly one alert to the ledger, and playFireAlarm is called and the
\* OS notification issued exactly on the run's first fire frame: fire in k
\* frames gives k alerts, one alarm call and one notification.
C12_FirstFireThrottle ==
    [][\A r \in 1..Len(runs) :
          (/\ runs[r].pc = "reading"
           /\ runs'[r].totalFramesWithFire = runs[r].totalFramesWithFire + 1
           /\ ~runs[r].stopSeen /\ ~isEmergencyStop /\ permission = "granted")
          => LET first == IF runs[r].totalFramesWithFire = 0 THEN 1 ELSE 0
             IN  /\ Len(alerts') = Len(alerts) + 1
                 /\ alarmCalls' = alarmCalls + first
                 /\ notifications' = notifications + first]_vars

\* a run, never stopped, that has seen two fire frames: two alerts, one alarm
\* call, one notification
C12_Witness ==
    /\ permission = "granted"
    /\ ~isEmergencyStop
    /\ Len(runs) = 1
    /\ runs[1].pc = "reading" /\ ~runs[1].stopSeen
    /\ runs[1].totalFramesWithFire = 2
    /\ Len(alerts) = 2 /\ alarmCalls = 1 /\ notifications = 1

\* the step in which the request of a streaming run fails at stream level
StreamFailureStep ==
    \E r \in 1..Len(runs) :
        runs[r].kind = "stream" /\ runs[r].pc = "reading" /\ runs'[r].pc = "failed"

\* C11 (as claimed): a stream-level failure of a streaming run (non-2xx
\* response, network failure while reading) shows the user exactly one error
\* message for that run.  The error callback is invoked once, and shows a
\* message; the error is then rethrown to handleDetection, whose catch shows
\* a second one.
C11_OneMessagePerFailure ==
    [][StreamFailureStep => errorsShown' = errorsShown + 1]_vars

\* run r completes in this step: the body of a streaming run ends, or the
\* request of a batch run resolves
Completes(r) ==
    /\ runs[r].pc \in {"reading", "waiting"}
    /\ runs'[r].pc = "ended"

\* C15: a completed run adds its history item whatever the threat outcome
\* and whatever the emergency-stop flag (the current one and the one the run
\* started under): the step that completes a run, streaming or batch, puts
\* one new item at the head of the history and keeps the older ones.
C15_HistoryRegardless ==
    [][\A r \in 1..Len(runs) :
          Completes(r) =>
              /\ Len(detectionHistory') = Len(detectionHistory) + 1
              /\ Tail(detectionHistory') = detectionHistory
              /\ Head(detectionHistory').type =
                     (CASE runs[r].kind = "stream" -> "Fire & Smoke Detection (Streaming)"
                        [] runs[r].kind = "fire-smoke" -> "Fire & Smoke Detection"
                        [] OTHER -> "Satellite Analysis")]_vars

\* stopped, both runs ended: a streaming run and a batch run without threat
\* have each left their history item, and no alert was raised
C15_Witness ==
    /\ isEmergencyStop
    /\ alerts = <<>>
    /\ alarmCalls = 0
    /\ Len(runs) = 2 /\ runs[1].pc = "ended" /\ runs[2].pc = "ended"
    /\ Len(detectionHistory) = 2
    /\ detectionHistory[1].type = "Fire & Smoke Detection (Streaming)"
    /\ ~detectionHistory[1].detected
    /\ detectionHistory[2].type = "Satellite Analysis"
    /\ ~detectionHistory[2].detected

\* the verdict the batch rule gives for a recorded result
RuleSaysThreat(item) ==
    IF item.type = "Fire & Smoke Detection"
    THEN item.detectionCount > 0
    ELSE item.wildfireProb # Null /\ item.wildfireProb > Threshold

\* C16: in the batch path the verdict recorded for a request is 'threat'
\* exactly when the fire/smoke result has detections or the satellite
\* probability is strictly above 0.5; the request raises at most one alert
\* and at most one playFireAlarm call, and none when the verdict is not
\* 'threat' or the request fails.
C16_BatchVerdict ==
    [][\A r \in 1..Len(runs) :
          /\ (runs[r].pc = "waiting" /\ runs'[r].pc = "ended") =>
                 LET item == Head(detectionHistory')
                 IN  /\ item.detected = RuleSaysThreat(item)
                     /\ Len(alerts') - Len(alerts) \in {0, 1}
                     /\ alarmCalls' - alarmCalls \in {0, 1}
                     /\ ~item.detected => (alerts' = alerts /\ alarmCalls' = alarmCalls)
          /\ (runs[r].pc = "waiting" /\ runs'[r].pc = "failed") =>
                 (alerts' = alerts /\ alarmCalls' = alarmCalls
                    /\ detectionHistory' = detectionHistory)]_vars

\* both tabs have answered: a satellite probability of exactly 0.5 recorded
\* as no threat, a fire/smoke result with detections recorded as a threat
\* that raised the one alert and the one alarm call
C16_Witness ==
    /\ Len(detectionHistory) = 2
    /\ detectionHistory[1].type = "Satellite Analysis"
    /\ detectionHistory[1].wildfireProb = Threshold
    /\ ~detectionHistory[1].detected
    /\ detectionHistory[2].type = "Fire & Smoke Detection"
    /\ detectionHistory[2].detected
    /\ Len(alerts) = 1 /\ alarmCalls = 1

-----------------------------------------------------------------------------
(* Capture loop properties *)

\* C2 (as claimed): the emergency stop stops camera monitoring: the step
\* leaves no capture timer set, and while monitoring is off no tick sends a
\* frame.  handleEmergencyStop only clears the isMonitoring flag; the
\* interval set by startMonitoring keeps firing.
C2_StopHaltsCapture ==
    [][/\ (~isEmergencyStop /\ isEmergencyStop') => timers' = {}
       /\ ~isMonitoring => framesSent' = framesSent]_vars

\* C17: resume changes the suppression flag only: the ledger, the history,
\* the popup, the monitoring flag, the capture timers and the alarm engine
\* are as before it; and an alert enters the ledger only in the step in which
\* its detection arrives, so a detection suppressed while stopped does not
\* show up as an alert after resume.
C17_ResumeOnlyClearsFlag ==
    [][/\ (isEmergencyStop /\ ~isEmergencyStop') =>
             UNCHANGED <<alerts, detectionHistory, instantAlert, isMonitoring,
                         isLoading, timers, intervalRef, requests, stats,
                         audioVars, alarmCalls>>
       /\ alerts' # alerts =>
             (/\ Len(requests') = Len(requests) - 1
              /\ Len(alerts') = Len(alerts) + 1
              /\ Tail(alerts') = alerts)]_vars

\* resumed after a stop during which monitoring was started again (its timer
\* closed over the set flag); two frames have reported fire and one alert is
\* in the ledger; the timer and the monitoring flag are still there
C17_Witness ==
    /\ ~isEmergencyStop
    /\ \E t \in timers : t.stopSeen
    /\ isMonitoring
    /\ Len(alerts) = 1
    /\ stats.fireDetections = 2

\* handleEmergencyStop and handleResumeMonitoring as steps of the whole state
StopStep == HandleEmergencyStop /\ UNCHANGED <<decoderVars, cameraVars, lastOp>> /\ NoSave

ResumeStep == HandleResumeMonitoring /\ UNCHANGED <<decoderVars, cameraVars, lastOp>> /\ NoSave

\* C18: emergency stop and resume are idempotent: from every reachable
\* state, the state that one application of the handler leads to is left
\* unchanged by a second application.
C18_Idempotent ==
    /\ ENABLED (StopStep /\ (ENABLED (StopStep /\ UNCHANGED vars))')
    /\ ENABLED (ResumeStep /\ (ENABLED (ResumeStep /\ UNCHANGED vars))')

\* the emergency stop has acted on a session with a capture timer running,
\* an alert raised and the alarm still waiting for its clip: the flag is set,
\* monitoring is off, the popup is cleared, the clip start is aborted
C18_Witness ==
    /\ isEmergencyStop
    /\ ~isMonitoring
    /\ timers # {}
    /\ alerts # <<>>
    /\ instantAlert = <<>>
    /\ Aborted # {}

-----------------------------------------------------------------------------
(* Alarm engine: failure handling *)

\* C19: when the clip of a playFireAlarm call cannot be played (play()
\* rejects: load error, decode error, autoplay refused) and synthesis works,
\* the call falls through to the synthesized siren: it ends with isPlaying
\* true and its group of voices sounding, and no rejection reaches the caller.
C19_ClipFailureFallsBack ==
    [][lastOp' = "clipFails" =>
          \A c \in Pending \ DOMAIN promises' :
              /\ isPlaying'
              /\ Voices(c) \subseteq sounding' \ fading'
              /\ Voices(c) \subseteq oscillators'
              /\ rejections' = rejections]_vars

\* the clip of the first call has just failed: the siren of that call sounds
C19_Witness ==
    /\ lastOp = "clipFails"
    /\ isPlaying
    /\ Voices(1) \subseteq sounding
    /\ clipState = "idle"
    /\ rejections = 0

\* C20 (as claimed): a synthesis failure is caught inside the engine:
\* playFireAlarm never rejects towards its caller, and isPlaying is false
\* after the failure.  playGeneratedSiren has no try/catch: the exception of
\* init() or createOscillator() rejects the promise of playFireAlarm, and
\* after a createOscillator() failure isPlaying stays true.
C20_SynthesisFailureContained ==
    /\ rejections = 0
    /\ lastOp = "sirenFails" => ~isPlaying

-----------------------------------------------------------------------------
(* Ledger properties *)

\* C21 (as claimed): after the bulk clear of the alert panel the ledger is
\* empty, whatever number of alerts it held.  The panel calls
\* handleClearAlert(index) for index 0, 1, ..: each call removes the alert
\* at that index of the list the call before left, so of the alerts a ledger
\* of two or more holds every second one stays.
C21_BulkClearEmpties ==
    [][ClearAllAlerts => alerts' = <<>>]_vars

\* C22 (as claimed): dismissing the k-th alert the panel lists removes that
\* alert from the ledger, the other alerts staying as they are and in their
\* order.  The panel hands the index in activeAlerts to handleClearAlert,
\* which takes it as an index in alerts: with an alert above that the panel
\* does not list, another alert is removed.
C22_DismissRemovesThatAlert ==
    [][\A k \in 1..Len(ActiveAlerts) :
          DismissShown(k) =>
              alerts' = SelectSeq(alerts, LAMBDA a : a # ActiveAlerts[k])]_vars

\* obj.k: undefined (written Null) for a property the object does not have
Read(obj, k) == IF k \in DOMAIN obj THEN obj[k] ELSE Null

\* two objects with the same value under every property
SameObject(a, b) == \A k \in DOMAIN a \cup DOMAIN b : Read(a, k) = Read(b, k)

\* two lists with the same objects in the same order
SameList(x, y) == Len(x) = Len(y) /\ \A i \in 1..Len(x) : SameObject(x[i], y[i])

\* C23: after every step the text stored under each key is the JSON text of
\* the list in memory, and the list that a start of the application reads
\* from that text has the same objects, with the same value under every
\* property, in the same order.
C23_StoredIsMemory ==
    /\ storage.alerts = StringifyList(alerts)
    /\ storage.history = StringifyList(detectionHistory)
    /\ SameList(LoadList(storage.alerts), alerts)
    /\ SameList(LoadList(storage.history), detectionHistory)

\* the application was started anew from a store that holds two alerts and a
\* satellite item whose wildfireProb was undefined: the item in memory is the
\* parsed one, without that property
C23_Witness ==
    /\ Len(alerts) = 2
    /\ detectionHistory # <<>>
    /\ detectionHistory[1].type = "Satellite Analysis"
    /\ "wildfireProb" \notin DOMAIN detectionHistory[1]
    /\ \E i \in 1..Len(detectionHistory) :
          /\ "wildfireProb" \in DOMAIN detectionHistory[i]
          /\ detectionHistory[i].wildfireProb > Threshold

\* a satellite load whose response reports at least one hotspot
SatelliteFireStep == \E count \in 1..2 : LoadSatelliteAlerts(count)

\* C25 (as claimed): a satellite load made while the emergency stop is set
\* adds no alert and does not call playFireAlarm.  handleSatelliteFireDetected
\* does not read isEmergencyStop: it adds the alert and calls playFireAlarm
\* whenever the response reports a hotspot.
C25_StopGatesSatellite ==
    [][(isEmergencyStop /\ SatelliteFireStep) =>
          (alerts' = alerts /\ alarmCalls' = alarmCalls)]_vars

\* the alerts of a list at the positions `kept`, in their order
Pick(list, kept) ==
    LET KeptBefore(i) == Cardinality({j \in kept : j <= i})
    IN  [n \in 1..Cardinality(kept) |->
            list[CHOOSE i \in kept : KeptBefore(i) = n]]

\* ids grow with the time of creation
MostRecentFirst ==
    \A i, j \in 1..Len(alerts) : i < j => alerts[i].id > alerts[j].id

\* C24: the ledger is most-recent-first, and every step either puts one new
\* alert at its head, the alerts it held following as they were, or leaves
\* some of the alerts it held (all of them, when it is no removal), as they
\* were and in their order.
C24_HeadInsertionOnly ==
    /\ []MostRecentFirst
    /\ [][\/ /\ Len(alerts') = Len(alerts) + 1
             /\ SameList(Tail(alerts'), alerts)
             /\ \A i \in 1..Len(alerts) : alerts'[1].id # alerts[i].id
          \/ \E kept \in SUBSET (1..Len(alerts)) :
                SameList(alerts', Pick(alerts, kept))]_vars

\* two alerts were added, the batch one after the satellite one, and the
\* application was started anew after that: the later alert is at the head
C24_Witness ==
    /\ Len(alerts) = 2
    /\ alerts[1].source = "fire-smoke" /\ alerts[2].source = "NASA FIRMS"
    /\ alerts[1].id > alerts[2].id
    /\ "frameNumber" \notin DOMAIN alerts[2]

-----------------------------------------------------------------------------
(* Capture loop properties, continued *)

\* C26: a step in which a frame request fails changes neither the ledger,
\* the history, the popup, the alarm calls nor the counters, leaves the
\* timers set and the camera connected, and every timer that could fire
\* before it can fire after it.
C26_FailedFrameAbandoned ==
    [][(\E i \in 1..Len(requests) : FrameFails(i)) =>
          /\ UNCHANGED <<alerts, detectionHistory, instantAlert, alarmCalls, stats,
                         timers, intervalRef, isMonitoring, hasPermission, streamRef,
                         framesSent>>
          /\ \A t \in timers : ENABLED Tick(t) => (ENABLED Tick(t))']_vars

\* a request has failed with the loop running: nothing was counted, nothing
\* alerted, and the timer can fire again
C26_Witness ==
    /\ framesSent = 1 /\ requests = <<>>
    /\ stats.framesProcessed = 0
    /\ alerts = <<>> /\ alarmCalls = 0
    /\ isMonitoring /\ timers # {}
    /\ \A t \in timers : ENABLED Tick(t)

\* C28 (as claimed): while no timer id is held (before the first
\* startMonitoring and from each stopMonitoring to the next startMonitoring)
\* no capture tick can fire.  stopMonitoring clears the timer whose id
\* intervalRef holds; a timer that an emergency stop left running and whose
\* id the next startMonitoring overwrote keeps firing.
C28_StopClearsTimer ==
    intervalRef = 0 => ~ENABLED (\E t \in timers : Tick(t))

\* startMonitoring as a step of the whole state
StartMonitoringStep ==
    StartMonitoring /\ UNCHANGED <<decoderVars, audioVars, appOnly, lastOp>>

-----------------------------------------------------------------------------
(* Network source properties *)

\* C29: a connection starts with a proxy request; a failure under the proxy
\* handlers makes one direct request and puts the direct handlers in place,
\* so the next failure is theirs; with the direct handlers in place every
\* request a timer makes is a direct one; and a failure under the direct
\* handlers marks the source as not connected, leaves no snapshot timer set
\* and shows the connection error.
C29_ProxyThenDirect ==
    [][/\ (\E url \in Urls : StartNetworkCamera(url)) /\ snapshots' # snapshots
             => imgSrc' = "proxy" /\ imgHandlers'.kind = "proxy"
       /\ (ImgFails /\ imgHandlers.kind = "proxy")
             => /\ imgSrc' = "direct" /\ imgState' = "loading"
                /\ snapshots' = snapshots + 1
                /\ imgHandlers'.kind = "direct"
       /\ (polls' # polls /\ imgHandlers.kind = "direct" /\ snapshots' # snapshots)
             => imgSrc' = "direct" /\ imgHandlers'.kind = "direct"
       /\ (ImgFails /\ imgHandlers.kind = "direct")
             => /\ ~hasPermission'
                /\ pollTimers' = {} /\ refreshIntervalRef' = 0
                /\ error' = "connect"]_vars

\* the proxy failed, the direct request connected the source, a timer made a
\* direct request, and that request failed: not connected, no timer, error
C29_Witness ==
    /\ imgHandlers.kind = "direct"
    /\ imgSrc = "direct" /\ imgState = "broken"
    /\ polls > 0
    /\ ~hasPermission /\ pollTimers = {} /\ error = "connect"

\* C30 (as claimed): while the network source is connected, every firing of
\* the snapshot timer makes a new snapshot request.  The timer of the proxy
\* handlers runs refreshSnapshot, which tests the hasPermission of the render
\* in which startNetworkCamera was called: that one is false, so under the
\* proxy strategy no firing makes a request.
C30_EveryPollRequests ==
    [][(hasPermission /\ polls' = polls + 1) =>
          (snapshots' = snapshots + 1 /\ imgState' = "loading")]_vars


-----------------------------------------------------------------------------
(* Alarm engine properties, continued *)

\* C31 (as claimed): a playFireAlarm call that was waiting for the clip to
\* start when stopAlarm was called starts no sound afterwards: when its
\* aborted play() is delivered no voice begins to sound and isPlaying is
\* false after it.  pause() rejects the pending play() promise, the catch of
\* playMP3Alarm returns false, and playFireAlarm then calls
\* playGeneratedSiren: the siren starts after the stop.
C31_StopSilencesWaitingCall ==
    [][lastOp' = "abortDelivered" => (sounding' = sounding /\ ~isPlaying')]_vars


-----------------------------------------------------------------------------
(* Capture loop properties: timers, requests in flight, counters *)

\* C32 (as claimed): at any time at most one capture timer is set, after any
\* sequence of startMonitoring, stopMonitoring, emergency stop and resume.
\* The emergency stop sets isMonitoring to false and leaves the timer set, so
\* the Start Monitoring button sets a second one next to it.
C32_OneCaptureTimer == Cardinality(timers) <= 1

\* the arrival of a response, as a step of the whole state
FrameResponseStep(i, has_fire, ndet) ==
    /\ FrameResponse(i, has_fire, ndet)
    /\ UNCHANGED <<decoderVars, acquiring, netVars, sourceVars, lastOp>>
    /\ Persist

\* C33: stopMonitoring leaves the requests in flight as they are; a timer
\* fires whether or not earlier requests are still in flight; and a response
\* that arrives while monitoring is off is applied as any other: one frame
\* more is counted, one fire detection more when has_fire, and with has_fire
\* and detections onFireDetected runs (for a request whose closure saw no
\* emergency stop: the alarm is called and the alert put in the ledger).
C33_InFlightSurvivesStop ==
    [][/\ StopMonitoring => requests' = requests
       /\ \A t \in timers : (ENABLED Tick(t)) =>
             ENABLED (Tick(t) /\ Len(requests') = Len(requests) + 1)
       /\ \A i \in 1..Len(requests), has_fire \in BOOLEAN, ndet \in 0..1 :
             (~isMonitoring /\ FrameResponse(i, has_fire, ndet)) =>
                /\ stats'.framesProcessed = stats.framesProcessed + 1
                /\ stats'.fireDetections =
                      stats.fireDetections + (IF has_fire THEN 1 ELSE 0)
                /\ (has_fire /\ ndet > 0 /\ ~requests[i].stopSeen) =>
                      /\ alarmCalls' = alarmCalls + 1
                      /\ Len(alerts') = Len(alerts) + 1
                      /\ alerts'[1].source = "webcam"]_vars

\* stopMonitoring has cleared the timer while two overlapping requests are in
\* flight, and the response to either, with fire, is counted and alerted
C33_Witness ==
    /\ ~isMonitoring /\ ~isEmergencyStop
    /\ nextTimer > 0 /\ intervalRef = 0 /\ timers = {}
    /\ Len(requests) = 2
    /\ \A i \in 1..2 :
          ENABLED (/\ FrameResponseStep(i, TRUE, 1)
                   /\ stats'.framesProcessed = stats.framesProcessed + 1
                   /\ Len(alerts') = Len(alerts) + 1)


-----------------------------------------------------------------------------
(* Camera source properties *)

\* C34 (as claimed): when the component unmounts no capture timer is left
\* set and the source connected at that moment is released: in local mode
\* the tracks of the device stream are stopped, in network mode no snapshot
\* timer is left set and the src of the image is cleared.  The cleanup runs
\* the stopCamera of the first render, whose cameraMode is 'local' whatever
\* the mode is now: for a network source the snapshot timer is never cleared.
C34_UnmountReleases ==
    [][Unmount =>
          /\ timers' = {} /\ intervalRef' = 0
          /\ (hasPermission /\ cameraMode = "local") =>
                (~streamRef' /\ liveStreams' = liveStreams - 1)
          /\ (hasPermission /\ cameraMode = "network") =>
                (pollTimers' = {} /\ refreshIntervalRef' = 0 /\ imgSrc' = "none")]_vars

\* C35 (as claimed): no device stream is live while a snapshot timer of the
\* network source is set, and the live device streams are exactly the one
\* streamRef.current holds, if any.  A stream that getUserMedia grants after
\* the mode was switched to network finds no video element: startWebcam keeps
\* no reference to it and stops none of its tracks.
C35_OneActiveSource ==
    /\ ~(liveStreams > 0 /\ pollTimers # {})
    /\ liveStreams = (IF streamRef THEN 1 ELSE 0)


\* C36 (as claimed): every alert of the ledger has an id, and no two alerts
\* of the ledger have the same id.  The alert captureAndDetect hands to
\* onFireDetected has no id property, and onFireDetected puts it in the
\* ledger as it is.
C36_UniqueAlertIds ==
    /\ \A i \in 1..Len(alerts) : alerts[i].id # Null
    /\ \A i, j \in 1..Len(alerts) : i # j => alerts[i].id # alerts[j].id


\* C37: the counters change in no step but the arrival of a response, which
\* adds one to framesProcessed and one to fireDetections exactly when has_fire;
\* onFireDetected has acted (an alarm call, a new alert) only in a step that
\* adds one to fireDetections; so fireDetections never exceeds
\* framesProcessed, and neither the alarm calls nor the alerts of the ledger
\* exceed fireDetections.
C37_CountersFollowResponses ==
    /\ [](/\ stats.fireDetections <= stats.framesProcessed
          /\ alarmCalls <= stats.fireDetections
          /\ Len(alerts) <= stats.fireDetections)
    /\ [][/\ stats' # stats =>
                \E i \in 1..Len(requests), has_fire \in BOOLEAN, ndet \in 0..1 :
                   FrameResponse(i, has_fire, ndet)
          /\ \A i \in 1..Len(requests), has_fire \in BOOLEAN, ndet \in 0..1 :
                FrameResponse(i, has_fire, ndet) =>
                   /\ stats'.framesProcessed = stats.framesProcessed + 1
                   /\ stats'.fireDetections =
                         stats.fireDetections + (IF has_fire THEN 1 ELSE 0)
          /\ (alarmCalls' # alarmCalls \/ alerts' # alerts) =>
                stats'.fireDetections = stats.fireDetections + 1]_vars

\* two responses have arrived, both with has_fire, one of them without
\* detections: two frames and two fires counted, one detection emitted
C37_Witness ==
    /\ stats.framesProcessed = 2 /\ stats.fireDetections = 2
    /\ Len(alerts) = 1 /\ alarmCalls = 1
    /\ ~isEmergencyStop /\ requests = <<>>


-----------------------------------------------------------------------------
(* Detection run properties *)

\* the runs whose request is still open
RunsInFlight == {r \in 1..Len(runs) : runs[r].pc \in {"reading", "waiting"}}

\* the streaming runs that have received nothing yet: no callback of theirs,
\* the completion and the failure included, has run
Unanswered == {r \in RunsInFlight : runs[r].kind = "stream" /\ runs[r].nread = 0}

\* C38 (as claimed): from the start of a run until it has completed or
\* failed no second run is started, whatever controls are used meanwhile:
\* while a run has received nothing yet, no later run is in flight.  The
\* emergency stop sets isLoading to false while the run goes on, which
\* enables the Detect button again.
C38_OneRunInFlight == \A r \in Unanswered : \A q \in RunsInFlight : q <= r


\* C39: in a streaming run the recorded firstFireFrame is the number of the
\* first frame with has_fire and a non-empty detection list, whatever that
\* number is (0 included): the step that counts the run's first fire frame
\* sets firstFireFrame to that frame's number, and once a fire frame has
\* been counted no later frame of the run changes it.
C39_FirstFireFrameKept ==
    [][\A r \in 1..Len(runs) :
          (/\ runs[r].kind = "stream"
           /\ runs[r].pc = "reading"
           /\ runs'[r].pc = "reading")
          => /\ (runs[r].totalFramesWithFire = 0
                 /\ runs'[r].totalFramesWithFire = 1)
                => runs'[r].firstFireFrame = runs[r].nread
             /\ runs[r].totalFramesWithFire > 0
                => runs'[r].firstFireFrame = runs[r].firstFireFrame]_vars

=============================================================================
